---------------------------- MODULE Spec2Model ----------------------------
(***************************************************************************)
(* Portfolio attribution front end: the staged portfolioData and its       *)
(* imports (UploadView, App), the calendar aggregation                     *)
(* (aggregatePeriodData), the ranking table (AttributionTable) and the     *)
(* attribution views built on them (AttributionView, both copies of the    *)
(* module kept in AttributionView.tsx).                                    *)
(*                                                                         *)
(* Numbers are fixed-point integers: a JavaScript number v is the integer  *)
(* v * Scale.  Dates are the integer yyyymmdd of the ISO date string, so   *)
(* comparing getTime() is comparing integers.                              *)
(***************************************************************************)
EXTENDS Integers, Sequences, FiniteSets, TLC

VARIABLES
    portfolioData,  \* App: useState<PortfolioItem[]>
    weightsFile,    \* UploadView: a weights file is selected
    isAnalyzing,    \* UploadView: useState isAnalyzing
    inFlight,       \* the imports awaiting their file or the server, each with
                    \* the currentData its handler closed over
    bucket,         \* the PortfolioItem[] handed to aggregatePeriodData
    aggRows,        \* the TableItem[] it returned
    items,          \* the TableItem[] handed to AttributionTable
    table,          \* what AttributionTable last rendered
    viewMode,       \* AttributionView: useState viewMode
    timeRange,      \* AttributionView: useState timeRange
    view,           \* what AttributionView renders of portfolioData
    rawItems,       \* the items an import path is about to normalise
    normalizedData, \* what the import path made of them
    sectorCache,    \* api: let sectorCache
    betaCache,      \* api: let betaCache
    calls,          \* the calls of fetchSectors and fetchBetas, in the order made
    isOpen,         \* ManualEntryModal: the isOpen prop
    tickerRows,     \* ManualEntryModal: useState tickers
    periods,        \* ManualEntryModal: useState periods
    submitted,      \* the flat items handed to onSubmit, if any
    currentView,    \* App: useState currentView
    fileHistory,    \* App: useState fileHistory
    uploadedFiles,  \* App: useState uploadedFiles
    correlationResult,\* App: useState correlationResult
    correlationStatus,\* App: useState correlationStatus
    runs,           \* the runAnalysis calls awaiting analyzeCorrelations, each with its data
    mergeCurrent,   \* mergePortfolios: the argument current
    mergeIncoming,  \* mergePortfolios: the argument incoming
    merged          \* the list mergePortfolios returned, once it has

uploadVars == <<weightsFile, isAnalyzing, inFlight>>

fnVars == <<bucket, aggRows, items, table>>

viewVars == <<viewMode, timeRange, view>>

normVars == <<rawItems, normalizedData>>

cacheVars == <<sectorCache, betaCache, calls>>

editorVars == <<isOpen, tickerRows, periods, submitted>>

appVars == <<currentView, fileHistory, uploadedFiles, correlationResult, correlationStatus, runs>>

mergeVars == <<mergeCurrent, mergeIncoming, merged>>

vars == <<portfolioData, uploadVars, fnVars, viewVars, normVars, cacheVars, editorVars, appVars, mergeVars>>

\* what the calls of aggregatePeriodData and AttributionTable leave alone
outsideCalls == <<portfolioData, uploadVars, viewVars, normVars, cacheVars, editorVars, appVars, mergeVars>>

\* what AttributionView leaves alone
outsideView == <<portfolioData, uploadVars, fnVars, normVars, cacheVars, editorVars, appVars, mergeVars>>

\* what UploadView and App.handleDataLoaded leave alone
outsideUpload == <<fnVars, viewVars, normVars, cacheVars, editorVars, mergeVars>>

\* what the normalisation of an import leaves alone
outsideNorm == <<portfolioData, uploadVars, fnVars, viewVars, cacheVars, editorVars, appVars, mergeVars>>

-----------------------------------------------------------------------------
(* Numbers *)

Scale == 100

\* an optional field (returnPct?, contribution?) that is absent
Undefined == -999999

\* null
Null == -999998

\* JavaScript `x || 0` on an optional number
OrZero(x) == IF x = Undefined THEN 0 ELSE x

Abs(x) == IF x < 0 THEN -x ELSE x

\* Array.prototype.reduce
Reduce(s, F(_, _), init) ==
    LET f[n \in 0..Len(s)] == IF n = 0 THEN init ELSE F(f[n - 1], s[n])
    IN  f[Len(s)]

\* Array.prototype.map
Map(s, F(_)) == [i \in 1..Len(s) |-> F(s[i])]

\* Array.prototype.sort: stable, ordered by the sign of the comparator
InsertSorted(sorted, x, Cmp(_, _)) ==
    LET k == Cardinality({i \in 1..Len(sorted) : Cmp(sorted[i], x) <= 0})
    IN  SubSeq(sorted, 1, k) \o <<x>> \o SubSeq(sorted, k + 1, Len(sorted))

Sort(s, Cmp(_, _)) ==
    LET f[n \in 0..Len(s)] ==
            IF n = 0 THEN <<>> ELSE InsertSorted(f[n - 1], s[n], Cmp)
    IN  f[Len(s)]

\* Array.prototype.slice(0, n)
Slice(s, n) == SubSeq(s, 1, IF Len(s) < n THEN Len(s) ELSE n)

Range(s) == {s[i] : i \in 1..Len(s)}

\* Math.max(...xs) of a non-empty list
MaxOf(s) == CHOOSE m \in Range(s) : \A x \in Range(s) : x <= m

-----------------------------------------------------------------------------
(* Tickers and dates *)

\* new Date(): the day the application runs
Today == 20240615

\* String.prototype.toUpperCase on the tickers of the model
ToUpperCase(t) ==
    CASE t = "aaa"  -> "AAA"
      [] t = "cash" -> "CASH"
      [] OTHER      -> t

\* d.ticker.toUpperCase().includes('CASH')
IncludesCASH(t) == ToUpperCase(t) \in {"CASH", "$CASH$"}

\* item.ticker.includes('$')
IncludesDollar(t) == t \in {"$CASH$"}

\* new Date(d.date).getFullYear() / getMonth() (0-based)
GetFullYear(d) == d \div 10000
GetMonth(d) == ((d \div 100) % 100) - 1


-----------------------------------------------------------------------------
(* Records *)

\* a number n / d in the fixed-point unit (the result of a JavaScript division)
Ratio(n, d) == [num |-> n, den |-> d]

RatEq(a, b) == a.num * b.den = b.num * a.den

\* PortfolioItem (types.ts): returnPct and contribution are optional
PortfolioItem(t, d, w, r, c) ==
    [ticker |-> t, date |-> d, weight |-> w, returnPct |-> r, contribution |-> c]

\* interface TableItem
TableItem(t, w, r, c) ==
    [ticker |-> t, weight |-> w, returnPct |-> r, contribution |-> c]

\* the accumulator of the reduce calls of AttributionTable
AddItem(acc, i) ==
    [weight |-> acc.weight + i.weight,
     contribution |-> acc.contribution + i.contribution]

SumItems(s) == Reduce(s, AddItem, [weight |-> 0, contribution |-> 0])

-----------------------------------------------------------------------------
(* aggregatePeriodData *)

\* Object.keys(byTicker): the tickers in the order of their first item
ByTickerKeys(d) ==
    Reduce(d, LAMBDA acc, x : IF x.ticker \in Range(acc) THEN acc
                               ELSE Append(acc, x.ticker), <<>>)

\* byTicker[ticker], sorted by date ascending
SortedByDate(its) == Sort(its, LAMBDA a, b : a.date - b.date)

\* items[items.length - 1].weight, items sorted by date
EndOfPeriodWeight(its) == its[Len(its)].weight

\* the contribution of the last item alone, which the sum has to tell apart
LastContrib(its) == OrZero(its[Len(its)].contribution)

\* items.reduce((sum, item) => sum + (item.contribution || 0), 0)
TotalContrib(its) ==
    Reduce(its, LAMBDA sum, item : sum + OrZero(item.contribution), 0)

WeightTimesReturnSum(its) ==
    Reduce(its, LAMBDA acc, item :
                    acc + OrZero(item.weight) * OrZero(item.returnPct), 0)

WeightSum(its) == Reduce(its, LAMBDA acc, item : acc + OrZero(item.weight), 0)

WeightedAvgReturn(its) ==
    LET weightSum == WeightSum(its)
    IN  IF weightSum > 0
        THEN Ratio(WeightTimesReturnSum(its), weightSum)
        ELSE Ratio(0, 1)

AggregateTicker(d, ticker) ==
    LET its == SortedByDate(SelectSeq(d, LAMBDA x : x.ticker = ticker))
    IN  TableItem(ticker, EndOfPeriodWeight(its), WeightedAvgReturn(its),
                  TotalContrib(its))

aggregatePeriodData(d) ==
    IF Len(d) = 0 THEN <<>>
    ELSE Map(ByTickerKeys(d), LAMBDA ticker : AggregateTicker(d, ticker))

-----------------------------------------------------------------------------
(* AttributionTable *)

TopN == 5

\* the same side in ascending order, which the ranking has to tell apart
PositivesAscending(its) ==
    Sort(SelectSeq(its, LAMBDA i : i.contribution >= 0),
         LAMBDA a, b : a.contribution - b.contribution)

\* items.filter(i => i.contribution >= 0).sort((a, b) => b.contribution - a.contribution)
Positives(its) ==
    Sort(SelectSeq(its, LAMBDA i : i.contribution >= 0),
         LAMBDA a, b : b.contribution - a.contribution)

Negatives(its) ==
    Sort(SelectSeq(its, LAMBDA i : i.contribution < 0),
         LAMBDA a, b : a.contribution - b.contribution)

\* positives.slice(0, 5) / negatives.slice(0, 5)
TopContributors(its) == Slice(Positives(its), TopN)

TopDisruptors(its) == Slice(Negatives(its), TopN)

\* new Set([...topContributors, ...topDisruptors].map(i => i.ticker))
TopTickerSet(top, bottom) == {i.ticker : i \in Range(top \o bottom)}

\* items.filter(i => !topTickerSet.has(i.ticker))
Others(its, topTickerSet) ==
    SelectSeq(its, LAMBDA i : i.ticker \notin topTickerSet)

\* 100 - topContribSum.weight - topDisruptSum.weight
ResidualOtherWeight(topContribSum, topDisruptSum) ==
    100 * Scale - topContribSum.weight - topDisruptSum.weight

\* residualOtherWeight > 0.001 ? (othersSum.contribution * 100) / residualOtherWeight : 0
OthersReturn(othersSum, residualOtherWeight) ==
    IF residualOtherWeight * 1000 > Scale
    THEN Ratio(othersSum.contribution * (100 * Scale), residualOtherWeight)
    ELSE Ratio(0, 1)

\* the weight cell of the Total Portfolio row: the literal 100.00%
TotalWeightCell(totalSum) == 100 * Scale

\* the rendered table: the rows, the two sum rows and the footer cells
AttributionTable(its) ==
    LET topContributors == TopContributors(its)
        topContribSum   == SumItems(topContributors)
        topDisruptors   == TopDisruptors(its)
        topDisruptSum   == SumItems(topDisruptors)
        others          == Others(its, TopTickerSet(topContributors, topDisruptors))
        othersSum       == SumItems(others)
        residualOtherWeight == ResidualOtherWeight(topContribSum, topDisruptSum)
        totalSum        == SumItems(its)
    IN  [topContributors |-> topContributors,
         topContribSum   |-> topContribSum,
         topDisruptors   |-> topDisruptors,
         topDisruptSum   |-> topDisruptSum,
         otherWeight     |-> residualOtherWeight,
         otherReturn     |-> OthersReturn(othersSum, residualOtherWeight),
         otherContrib    |-> othersSum.contribution,
         totalWeight     |-> TotalWeightCell(totalSum),
         totalContrib    |-> totalSum.contribution]

\* the other copy of the module: Other Holdings and Total Portfolio show the
\* literal sums of the weights
OthersReturnV1(othersSum) ==
    IF othersSum.weight > 0
    THEN Ratio(othersSum.contribution * (100 * Scale), othersSum.weight)
    ELSE Ratio(0, 1)

AttributionTableV1(its) ==
    LET topContributors == TopContributors(its)
        topContribSum   == SumItems(topContributors)
        topDisruptors   == TopDisruptors(its)
        topDisruptSum   == SumItems(topDisruptors)
        others          == Others(its, TopTickerSet(topContributors, topDisruptors))
        othersSum       == SumItems(others)
        totalSum        == SumItems(its)
    IN  [topContributors |-> topContributors,
         topContribSum   |-> topContribSum,
         topDisruptors   |-> topDisruptors,
         topDisruptSum   |-> topDisruptSum,
         otherWeight     |-> othersSum.weight,
         otherReturn     |-> OthersReturnV1(othersSum),
         otherContrib    |-> othersSum.contribution,
         totalWeight     |-> totalSum.weight,
         totalContrib    |-> totalSum.contribution]

-----------------------------------------------------------------------------
(* The parts of the state a specification leaves idle *)

\* UploadView as mounted: no file selected, nothing in flight
NoUpload == weightsFile = FALSE /\ isAnalyzing = FALSE /\ inFlight = <<>>

\* no call of aggregatePeriodData or AttributionTable traced
NoCall == bucket = <<>> /\ aggRows = <<>> /\ items = <<>> /\ table = <<>>

\* AttributionView not shown
NoView == viewMode = "OVERVIEW" /\ timeRange = "YTD" /\ view = <<>>

\* no import normalisation traced
NoNorm == rawItems = <<>> /\ normalizedData = <<>>

\* no reference value cached, no fetchSectors or fetchBetas called
NoFetch == sectorCache = <<>> /\ betaCache = <<>> /\ calls = <<>>

\* no manual editor mounted
NoEditor == isOpen = FALSE /\ tickerRows = <<>> /\ periods = <<>> /\ submitted = <<>>

\* useState<any>(null): correlationResult is null, or one stored result
NoResult == <<>>

\* useState({ weightsFile: null, navFile: null })
NoFiles == [weightsFile |-> Null, navFile |-> Null]

\* App as it starts: the import view, no history, no correlation result
NoApp == currentView = "UPLOAD" /\ fileHistory = <<>> /\ uploadedFiles = NoFiles /\ correlationResult = NoResult /\ correlationStatus = "idle" /\ runs = <<>>

\* no call of mergePortfolios traced
NoMerge == mergeCurrent = <<>> /\ mergeIncoming = <<>> /\ merged = <<>>

\* the state outside the calls of aggregatePeriodData and AttributionTable
IdleOutsideCalls == portfolioData = <<>> /\ NoUpload /\ NoView /\ NoNorm /\ NoFetch /\ NoEditor /\ NoApp /\ NoMerge

\* the state outside AttributionView
IdleOutsideView == NoUpload /\ NoCall /\ NoNorm /\ NoFetch /\ NoEditor /\ NoApp /\ NoMerge

\* the state outside UploadView and the staged data
IdleOutsideUpload == NoCall /\ NoView /\ NoNorm /\ NoFetch /\ NoEditor /\ NoMerge

\* the state outside the normalisation of an import
IdleOutsideNorm == portfolioData = <<>> /\ NoUpload /\ NoCall /\ NoView /\ NoFetch /\ NoEditor /\ NoApp /\ NoMerge

-----------------------------------------------------------------------------
(* SpecRank: one calendar bucket with many holdings, ranked by both copies  *)
(* of the table (TABLES view: aggregated per ticker; MONTHLY view of the    *)
(* other copy: one row per period item).                                    *)

MaxItems == 6

RankTickers == <<"T1", "T2", "T3", "T4", "T5", "T6", "T7", "T8">>

RankContribs == {-200, -100, 0, 100}

\* the weight of an item: 10.00% for a repeated ticker, 30.00% otherwise
RankWeight(dup) == IF dup THEN 1000 ELSE 3000

RankDate == Today

\* the i-th item of a bucket: a ticker of its own, or the first item's ticker
\* once more
RankItem(i, dup, c) ==
    PortfolioItem(IF dup THEN RankTickers[1] ELSE RankTickers[i],
                  RankDate, RankWeight(dup), 100, c)

\* items = monthlyData.map(d => ({ ticker, weight, returnPct, contribution: d.contribution || 0 }))
ToTableItem(d) ==
    TableItem(d.ticker, d.weight,
              IF d.returnPct = Undefined THEN Undefined ELSE Ratio(d.returnPct, 1),
              OrZero(d.contribution))

InitRank ==
    /\ \E n \in 0..MaxItems, dup \in BOOLEAN :
         \E c \in [1..n -> RankContribs] :
            bucket = [i \in 1..n |-> RankItem(i, dup /\ i = n /\ n > 1, c[i])]
    /\ items = <<>>
    /\ table = <<>>
    /\ aggRows = <<>>
    /\ IdleOutsideCalls

\* TABLES view, one month: AttributionTable over aggregatePeriodData(monthlyData)
RenderMonthTable ==
    /\ Len(bucket) > 0
    /\ items' = aggregatePeriodData(bucket)
    /\ table' = <<AttributionTable(items')>>
    /\ UNCHANGED <<outsideCalls, bucket, aggRows>>

\* MONTHLY view of the other copy: AttributionTable over the month's items
RenderMonthTableV1 ==
    /\ Len(bucket) > 0
    /\ items' = Map(bucket, ToTableItem)
    /\ table' = <<AttributionTableV1(items')>>
    /\ UNCHANGED <<outsideCalls, bucket, aggRows>>

NextRank == RenderMonthTable \/ RenderMonthTableV1

SpecRank == InitRank /\ [][NextRank]_vars

-----------------------------------------------------------------------------
(* SpecAgg: the items of one calendar bucket, aggregated per ticker by      *)
(* aggregatePeriodData and by the QUARTERLY view of the other copy.         *)

MaxAggItems == 3

AggTickers == {"AAA", "BBB"}

AggDates == {20240110, 20240120}

\* multiples of 12.00, which every count of items up to 4 divides
AggWeights == {-1200, 0, 2400}

\* returnPct and contribution of an item: both absent, or 2.00% and 0.40
AggValues == {<<Undefined, Undefined>>, <<200, 40>>}

AggItems ==
    {PortfolioItem(t, d, w, v[1], v[2]) :
        t \in AggTickers, d \in AggDates, w \in AggWeights, v \in AggValues}

\* QUARTERLY view of the other copy: tickerMap, then weight / count and
\* returnSum (the division is exact on the weights of the model)
QuarterAggregateV1(qData) ==
    Map(ByTickerKeys(qData), LAMBDA ticker :
        LET its == SelectSeq(qData, LAMBDA x : x.ticker = ticker)
        IN  TableItem(ticker,
                Reduce(its, LAMBDA acc, x : acc + x.weight, 0) \div Len(its),
                Ratio(Reduce(its, LAMBDA acc, x : acc + OrZero(x.returnPct), 0), 1),
                TotalContrib(its)))

InitAgg ==
    /\ \E n \in 0..MaxAggItems : bucket \in [1..n -> AggItems]
    /\ aggRows = <<>>
    /\ items = <<>>
    /\ table = <<>>
    /\ IdleOutsideCalls

\* aggregatePeriodData(monthlyData) / aggregatePeriodData(q1Data)
AggregatePeriod ==
    /\ aggRows' = <<aggregatePeriodData(bucket)>>
    /\ UNCHANGED <<outsideCalls, bucket, items, table>>

\* the aggregation of the QUARTERLY view of the other copy
AggregateQuarterV1 ==
    /\ Len(bucket) > 0
    /\ aggRows' = <<QuarterAggregateV1(bucket)>>
    /\ UNCHANGED <<outsideCalls, bucket, items, table>>

NextAgg == AggregatePeriod \/ AggregateQuarterV1

SpecAgg == InitAgg /\ [][NextAgg]_vars

-----------------------------------------------------------------------------
(* AttributionViewContent: what the OVERVIEW heatmap and the TABLES view    *)
(* show of the data prop                                                    *)

\* const cleanData = useMemo(() => data, [data])
CleanData(d) == d

\* Math.max(...dates)
MaxDate(d) == MaxOf(Map(d, LAMBDA x : x.date))

PrimaryYear(d) ==
    IF Len(CleanData(d)) = 0 THEN GetFullYear(Today)
    ELSE GetFullYear(MaxDate(CleanData(d)))

\* allMonths: none without data, else the months 0..11 of the primary year
AllMonths(d) == IF Len(CleanData(d)) = 0 THEN {} ELSE 0..11

QuarterMonths(q) ==
    CASE q = "Q1" -> {0, 1, 2}
      [] q = "Q2" -> {3, 4, 5}
      [] q = "Q3" -> {6, 7, 8}
      [] q = "Q4" -> {9, 10, 11}

FilteredOverviewData(d, tr) ==
    IF tr = "YTD" THEN CleanData(d)
    ELSE SelectSeq(CleanData(d), LAMBDA x : GetMonth(x.date) \in QuarterMonths(tr))

\* Array.from(new Set(filteredOverviewData.map(d => d.ticker)))
UniqueTickers(fd) == ByTickerKeys(fd)

\* history.reduce(...): the first entry of the latest date
LatestEntry(history) ==
    Reduce(history, LAMBDA latest, current :
                        IF current.date > latest.date THEN current ELSE latest,
           history[1])

\* tickerStats: ticker, totalContrib, history, latestWeight
TickerStats(fd) ==
    Map(UniqueTickers(fd), LAMBDA ticker :
        LET history == SelectSeq(fd, LAMBDA x : x.ticker = ticker)
        IN  [ticker       |-> ticker,
             totalContrib |-> TotalContrib(history),
             history      |-> history,
             latestWeight |-> LatestEntry(history).weight])

SortedByContrib(stats) ==
    Sort(stats, LAMBDA a, b : b.totalContrib - a.totalContrib)

\* the entries of a row's history that fall in month m of the primary year
MonthlyEntries(history, y, m) ==
    SelectSeq(history, LAMBDA h : GetMonth(h.date) = m /\ GetFullYear(h.date) = y)

\* a cell that takes every month for one with entries
CellValueOfAny(monthlyEntries) == TotalContrib(monthlyEntries)

\* row[key]: the month's contributions summed, null for a month without entries
CellValue(monthlyEntries) ==
    IF Len(monthlyEntries) > 0 THEN TotalContrib(monthlyEntries) ELSE Null

\* row[`w-${key}`]: the largest weight of the month, 0 without entries
CellWeight(monthlyEntries) ==
    IF Len(monthlyEntries) > 0
    THEN MaxOf(Map(monthlyEntries, LAMBDA x : x.weight)) ELSE 0

\* matrixData: per ticker the total and one cell and one weight per month
MatrixData(d, tr) ==
    Map(SortedByContrib(TickerStats(FilteredOverviewData(d, tr))), LAMBDA stat :
        [ticker       |-> stat.ticker,
         total        |-> stat.totalContrib,
         latestWeight |-> stat.latestWeight,
         cell |-> [m \in AllMonths(d) |->
             CellValue(MonthlyEntries(stat.history, PrimaryYear(d), m))],
         w |-> [m \in AllMonths(d) |->
             CellWeight(MonthlyEntries(stat.history, PrimaryYear(d), m))]])

\* TABLES view: data.filter(month of the primary year, ticker without CASH)
MonthlyData(d, m) ==
    SelectSeq(d, LAMBDA x : /\ GetFullYear(x.date) = PrimaryYear(d)
                            /\ GetMonth(x.date) = m
                            /\ ~IncludesCASH(x.ticker))

\* TABLES view: cleanData.filter(month of the quarter, primary year)
QuarterData(d, q) ==
    SelectSeq(CleanData(d), LAMBDA x : /\ GetMonth(x.date) \in QuarterMonths(q)
                                       /\ GetFullYear(x.date) = PrimaryYear(d))

\* a table of the TABLES view: the items handed to AttributionTable and what
\* it shows of them
TableOf(pd) ==
    LET its == aggregatePeriodData(pd)
    IN  <<[items |-> its, table |-> AttributionTable(its)]>>

\* a month of the TABLES view: hidden without data
MonthTable(d, m) ==
    IF Len(MonthlyData(d, m)) = 0 THEN <<>> ELSE TableOf(MonthlyData(d, m))

\* a quarter of the TABLES view: null unless its three months have data
QuarterTable(d, q) ==
    LET qData == QuarterData(d, q)
        uniqueMonths == {GetMonth(x.date) : x \in Range(qData)}
    IN  IF Len(qData) = 0 \/ Cardinality(uniqueMonths) < 3 THEN <<>>
        ELSE TableOf(qData)

Quarters == {"Q1", "Q2", "Q3", "Q4"}

TimeRanges == {"YTD"} \cup Quarters

ViewModes == {"OVERVIEW", "TABLES"}

Render(d, mode, tr) ==
    IF mode = "OVERVIEW"
    THEN [mode |-> mode, rows |-> MatrixData(d, tr), months |-> <<>>,
          quarters |-> <<>>]
    ELSE [mode |-> mode, rows |-> <<>>,
          months |-> [m \in AllMonths(d) |-> MonthTable(d, m)],
          quarters |-> [q \in IF AllMonths(d) = {} THEN {} ELSE Quarters |->
                            QuarterTable(d, q)]]

-----------------------------------------------------------------------------
(* SpecView: AttributionView over a staged data set *)

MaxViewItems == 3

ViewTickers == {"AAA", "$CASH$"}

ViewDates == {20231215, 20240115, 20240215, 20240315}

\* the contribution of a period: 0.10, 0.20, 0.40, 0.80 by its date
ViewContribution(d) ==
    CASE d = 20231215 -> 10
      [] d = 20240115 -> 20
      [] d = 20240215 -> 40
      [] OTHER        -> 80

ViewItems ==
    {PortfolioItem(t, d, 2000, 200, ViewContribution(d)) :
        t \in ViewTickers, d \in ViewDates}

InitView ==
    /\ \E n \in 0..MaxViewItems : portfolioData \in [1..n -> ViewItems]
    /\ viewMode = "OVERVIEW"
    /\ timeRange = "YTD"
    /\ view = Render(portfolioData, viewMode, timeRange)
    /\ IdleOutsideView

\* the Overview / Tables buttons
SetViewMode(mode) ==
    /\ viewMode' = mode
    /\ view' = Render(portfolioData, mode, timeRange)
    /\ UNCHANGED <<outsideView, timeRange>>

\* the time range selector, shown in the Overview only
SetTimeRange(tr) ==
    /\ viewMode = "OVERVIEW"
    /\ timeRange' = tr
    /\ view' = Render(portfolioData, viewMode, tr)
    /\ UNCHANGED <<outsideView, viewMode>>

NextView ==
    \/ \E mode \in ViewModes : SetViewMode(mode)
    \/ \E tr \in TimeRanges : SetTimeRange(tr)

SpecView == InitView /\ [][NextView]_vars

-----------------------------------------------------------------------------
(* UploadView: the two import paths, the demo data and Clear Data *)

\* const getKey = (item) => `${item.ticker.toUpperCase()}|${item.date}`
GetKey(item) == <<ToUpperCase(item.ticker), item.date>>

\* mergedMap.has(key), over the map's values in insertion order
HasKey(m, key) == \E i \in 1..Len(m) : GetKey(m[i]) = key

\* the position of a key the map holds
KeyIndex(m, key) == CHOOSE i \in 1..Len(m) : GetKey(m[i]) = key

\* current.forEach(item => mergedMap.set(getKey(item), { ...item }))
SetCurrent(m, item) ==
    IF HasKey(m, GetKey(item))
    THEN [m EXCEPT ![KeyIndex(m, GetKey(item))] = item]
    ELSE Append(m, item)

\* a merge in which the incoming item always wins: { ...existing, ...item }
MergeItemIncomingWins(existing, item) == item

\* { ...existing, ...item, weight: ..., contribution: ..., returnPct: ... }
MergeItem(existing, item) ==
    [ticker       |-> item.ticker,
     date         |-> item.date,
     weight       |-> IF item.weight # 0 THEN item.weight ELSE existing.weight,
     contribution |-> IF item.contribution # Undefined
                      THEN item.contribution ELSE existing.contribution,
     returnPct    |-> IF item.returnPct # Undefined
                      THEN item.returnPct ELSE existing.returnPct]

\* incoming.forEach(item => ...)
SetIncoming(m, item) ==
    IF HasKey(m, GetKey(item))
    THEN [m EXCEPT ![KeyIndex(m, GetKey(item))] = MergeItem(@, item)]
    ELSE Append(m, item)

\* const mergePortfolios = (current, incoming) => Array.from(mergedMap.values())
mergePortfolios(current, incoming) ==
    Reduce(incoming, SetIncoming, Reduce(current, SetCurrent, <<>>))

\* Math.max(...xs) <= bound; Math.max() of no argument is -Infinity
MaxAtMost(xs, bound) == Len(xs) = 0 \/ MaxOf(xs) <= bound

\* handlePythonAnalysis: x * 100 where x is defined and |x| < 2.0
PythonTimes100(x) ==
    IF x # Undefined /\ Abs(x) < 2 * Scale THEN x * 100 ELSE x

\* handlePythonAnalysis: normalizedResults
PythonNormalize(results) ==
    LET isDecimalScale == MaxAtMost(Map(results, LAMBDA p : p.weight), (3 * Scale) \div 2)
    IN  IF isDecimalScale
        THEN Map(results, LAMBDA p :
                 [p EXCEPT !.weight = p.weight * 100,
                           !.returnPct = PythonTimes100(p.returnPct),
                           !.contribution = PythonTimes100(p.contribution)])
        ELSE results

\* processFile: x * 100 where x is defined, not 0 and |x| < 1.0
FileTimes100(x) ==
    IF x # Undefined /\ Abs(x) < Scale /\ x # 0 THEN x * 100 ELSE x

\* Math.round(x * 10000) / 10000: the model's numbers are hundredths, which
\* four decimals hold exactly
Round4(x) == IF x = Undefined THEN Undefined ELSE (x * 100) \div 100

\* processFile: the filter that ends normalizedData
KeepItem(p) ==
    \/ Abs(p.weight) * 10000 > Scale
    \/ /\ p.contribution # Undefined
       /\ p.contribution # 0
       /\ Abs(p.contribution) * 10000 > Scale

\* Array.prototype.filter
Filter(s, P(_)) ==
    Reduce(s, LAMBDA acc, x : IF P(x) THEN Append(acc, x) ELSE acc, <<>>)

\* processFile: normalizedData
FileNormalize(parsedItems) ==
    LET isPercentageScale == ~MaxAtMost(Map(parsedItems, LAMBDA p : p.weight), (3 * Scale) \div 2)
        Norm(p) ==
            [p EXCEPT !.weight = Round4(IF isPercentageScale THEN p.weight ELSE p.weight * 100),
                      !.returnPct = Round4(FileTimes100(p.returnPct)),
                      !.contribution = Round4(FileTimes100(p.contribution))]
    IN  Filter(Map(parsedItems, Norm), KeepItem)

\* let finalData = normalized; if (currentData.length > 0) finalData = mergePortfolios(...)
FinalData(currentData, normalized) ==
    IF Len(currentData) > 0 THEN mergePortfolios(currentData, normalized) ELSE normalized

\* loadDemoData: const demo
DemoData ==
    << PortfolioItem("NVDA", Today, 1500, 1250, 187),
       PortfolioItem("MSFT", Today, 1200, 210, 25),
       PortfolioItem("AAPL", Today, 1000, -150, -15),
       PortfolioItem("AMZN", Today, 800, 500, 40) >>

\* removal of the k-th element of a list
RemoveAt(s, k) == SubSeq(s, 1, k - 1) \o SubSeq(s, k + 1, Len(s))

-----------------------------------------------------------------------------
(* Spec: the application from start-up: App's state, the Sidebar, the       *)
(* imports of UploadView and the analyses of CorrelationView                *)

\* imports that may await their file or the server at one time
MaxInFlight == 2

\* rows of one imported file or of one server answer
MaxImport == 2

\* entries of fileHistory
MaxHistory == 2

\* runAnalysis calls that may await analyzeCorrelations at one time
MaxRuns == 1

ImportTickers == {"AAA", "aaa"}

FileTickers == {"BBB"}

\* what the server answers: decimals
PythonItems ==
    {PortfolioItem(t, Today, 50, v[1], v[2]) :
        t \in ImportTickers, v \in {<<10, 5>>}}

\* what a file parses to: percentages
ParsedItems ==
    {PortfolioItem(t, Today, 2000, v[1], v[2]) :
        t \in FileTickers, v \in {<<Undefined, Undefined>>}}

\* the answers of the server: none, or the rows of a ticker written twice
PythonAnswers ==
    {r \in UNION {[1..n -> PythonItems] : n \in 0..MaxImport} :
        \A i \in 1..Len(r) : r[i].ticker = (IF i = 1 THEN "AAA" ELSE "aaa")}

\* the files dropped: no row, or rows of one ticker
ParsedSheets == UNION {[1..n -> ParsedItems] : n \in 0..MaxImport}

\* file.name of a dropped file
FileName == "weights.xlsx"

Init ==
    /\ portfolioData = <<>>
    /\ NoUpload
    /\ IdleOutsideUpload
    /\ NoApp

\* an optional argument: absent, or the value passed
Absent == <<>>
Passed(x) == <<x>>

\* a handler that keeps fileHistory and uploadedFiles when the data is empty
HandleDataLoadedKeepsHistory(data, fileInfo, files) ==
    /\ portfolioData' = data
    /\ correlationResult' = NoResult
    /\ correlationStatus' = "idle"
    /\ uploadedFiles' = IF files # Absent THEN files[1] ELSE uploadedFiles
    /\ fileHistory' = IF Len(data) > 0 /\ fileInfo # Absent
                      THEN Append(fileHistory, fileInfo[1]) ELSE fileHistory
    /\ UNCHANGED <<currentView, runs>>

\* App.handleDataLoaded(data, fileInfo?, files?)
HandleDataLoaded(data, fileInfo, files) ==
    /\ portfolioData' = data
    /\ correlationResult' = NoResult
    /\ correlationStatus' = "idle"
    /\ uploadedFiles' = IF Len(data) = 0 THEN NoFiles
                        ELSE IF files # Absent THEN files[1] ELSE uploadedFiles
    /\ fileHistory' = IF Len(data) = 0 THEN <<>>
                      ELSE IF fileInfo # Absent THEN Append(fileHistory, fileInfo[1])
                      ELSE fileHistory
    /\ UNCHANGED <<currentView, runs>>

\* the weights file input: setWeightsFile(e.target.files[0])
SelectWeightsFile ==
    /\ currentView = "UPLOAD"
    /\ weightsFile' = TRUE
    /\ UNCHANGED <<portfolioData, isAnalyzing, inFlight, outsideUpload, appVars>>

\* handlePythonAnalysis up to its await; the button is disabled without a
\* weights file and while an analysis runs. The server's answer is a function
\* of the files sent
StartPythonAnalysis ==
    \E results \in PythonAnswers :
        /\ currentView = "UPLOAD"
        /\ weightsFile
        /\ ~isAnalyzing
        /\ Len(inFlight) < MaxInFlight
        /\ Len(fileHistory) + Len(inFlight) < MaxHistory
        /\ isAnalyzing' = TRUE
        /\ inFlight' = Append(inFlight, [kind |-> "python", currentData |-> portfolioData,
                                         payload |-> results, mounted |-> TRUE])
        /\ UNCHANGED <<portfolioData, weightsFile, outsideUpload, appVars>>

\* handlePythonAnalysis after its await, the server having answered; the
\* setters of an unmounted UploadView do nothing
CompletePythonAnalysis ==
    \E k \in 1..Len(inFlight) :
        LET results == inFlight[k].payload
        IN  /\ inFlight[k].kind = "python"
            /\ HandleDataLoaded(FinalData(inFlight[k].currentData, PythonNormalize(results)),
                                Passed([name |-> "Python Analysis Result", count |-> Len(results)]),
                                Absent)
            /\ IF inFlight[k].mounted
               THEN weightsFile' = FALSE /\ isAnalyzing' = FALSE
               ELSE UNCHANGED <<weightsFile, isAnalyzing>>
            /\ inFlight' = RemoveAt(inFlight, k)
            /\ UNCHANGED outsideUpload

\* handlePythonAnalysis after its await, the request having failed
FailPythonAnalysis ==
    \E k \in 1..Len(inFlight) :
        /\ inFlight[k].kind = "python"
        /\ isAnalyzing' = IF inFlight[k].mounted THEN FALSE ELSE isAnalyzing
        /\ inFlight' = RemoveAt(inFlight, k)
        /\ UNCHANGED <<portfolioData, weightsFile, outsideUpload, appVars>>

\* processFile up to its first await, the dropped file holding parsedItems
StartProcessFile ==
    \E parsedItems \in ParsedSheets :
        /\ currentView = "UPLOAD"
        /\ Len(inFlight) < MaxInFlight
        /\ Len(fileHistory) + Len(inFlight) < MaxHistory
        /\ inFlight' = Append(inFlight, [kind |-> "file", currentData |-> portfolioData,
                                         payload |-> parsedItems, mounted |-> TRUE])
        /\ UNCHANGED <<portfolioData, weightsFile, isAnalyzing, outsideUpload, appVars>>

\* processFile after the file is read; no parsed item is an error
CompleteProcessFile ==
    \E k \in 1..Len(inFlight) :
        LET parsedItems == inFlight[k].payload
        IN  /\ inFlight[k].kind = "file"
            /\ IF Len(parsedItems) = 0
               THEN UNCHANGED <<portfolioData, appVars>>
               ELSE HandleDataLoaded(FinalData(inFlight[k].currentData, FileNormalize(parsedItems)),
                                     Passed([name |-> FileName, count |-> Len(parsedItems)]),
                                     Absent)
            /\ inFlight' = RemoveAt(inFlight, k)
            /\ UNCHANGED <<weightsFile, isAnalyzing, outsideUpload>>

\* loadDemoData, offered while nothing is staged
LoadDemoData ==
    /\ currentView = "UPLOAD"
    /\ Len(portfolioData) = 0
    /\ Len(fileHistory) + Len(inFlight) < MaxHistory
    /\ HandleDataLoaded(DemoData, Passed([name |-> "Demo Portfolio Data.xlsx", count |-> 4]), Absent)
    /\ UNCHANGED <<uploadVars, outsideUpload>>

\* Clear Data, offered while something is staged
ClearData ==
    /\ currentView = "UPLOAD"
    /\ Len(portfolioData) > 0
    /\ HandleDataLoaded(<<>>, Absent, Absent)
    /\ UNCHANGED <<uploadVars, outsideUpload>>

\* runAnalysis: activeHoldings
ActiveHoldings(data) ==
    LET latestDate == MaxOf(Map(data, LAMBDA d : d.date))
    IN  Filter(data, LAMBDA item :
            /\ item.date = latestDate
            /\ item.weight > 0
            /\ ~IncludesCASH(item.ticker)
            /\ ~IncludesDollar(item.ticker))

\* what analyzeCorrelations answers for the holdings of a data set
CorrelationOf(data) == [holdings |-> ActiveHoldings(data)]

\* runAnalysis up to its await: without active holdings it throws and the
\* status set to 'analyzing' ends as 'error' in the same turn
runAnalysis ==
    IF Len(ActiveHoldings(portfolioData)) = 0
    THEN /\ correlationStatus' = "error"
         /\ UNCHANGED <<correlationResult, runs>>
    ELSE /\ Len(runs) < MaxRuns
         /\ correlationStatus' = "analyzing"
         /\ runs' = Append(runs, [data |-> portfolioData])
         /\ UNCHANGED correlationResult

\* CorrelationView: useEffect(() => { ... }, []) on mount
MountCorrelationView ==
    IF correlationStatus = "idle" /\ Len(portfolioData) > 0 /\ correlationResult = NoResult
    THEN runAnalysis
    ELSE UNCHANGED <<correlationResult, correlationStatus, runs>>

\* UploadView leaves the screen: its state is lost, its imports go on
UnmountUploadView ==
    /\ weightsFile' = FALSE
    /\ isAnalyzing' = FALSE
    /\ inFlight' = Map(inFlight, LAMBDA r : [r EXCEPT !.mounted = FALSE])

\* setCurrentView(v) and the render that follows
SetCurrentView(v) ==
    /\ v # currentView
    /\ currentView' = v
    /\ IF currentView = "UPLOAD" THEN UnmountUploadView ELSE UNCHANGED uploadVars
    /\ IF v = "CORRELATION"
       THEN MountCorrelationView
       ELSE UNCHANGED <<correlationResult, correlationStatus, runs>>
    /\ UNCHANGED <<portfolioData, fileHistory, uploadedFiles, outsideUpload>>

\* Sidebar: hasData
hasData == Len(portfolioData) > 0

\* Sidebar: the items of the navigation; Portfolio Deep Dive has no handler
SidebarClick ==
    \E v \in {"UPLOAD", "DASHBOARD", "INDEX", "ATTRIBUTION", "CORRELATION"} :
        /\ v \in {"DASHBOARD", "ATTRIBUTION", "CORRELATION"} => hasData
        /\ SetCurrentView(v)

\* UploadView: Proceed, offered while something is staged
Proceed ==
    /\ currentView = "UPLOAD"
    /\ Len(portfolioData) > 0
    /\ SetCurrentView("DASHBOARD")

\* CorrelationView: Recalculate, disabled while the status is 'analyzing'
Recalculate ==
    /\ currentView = "CORRELATION"
    /\ correlationStatus # "analyzing"
    /\ runAnalysis
    /\ UNCHANGED <<portfolioData, uploadVars, currentView, fileHistory, uploadedFiles, outsideUpload>>

\* a resolution that stores the result and leaves the status as it is
ResolveRunKeepsStatus ==
    \E k \in 1..Len(runs) :
        /\ correlationResult' = <<CorrelationOf(runs[k].data)>>
        /\ runs' = RemoveAt(runs, k)
        /\ UNCHANGED <<portfolioData, uploadVars, currentView, fileHistory, uploadedFiles,
                       correlationStatus, outsideUpload>>

\* runAnalysis after its await: the answer parses
ResolveRun ==
    \E k \in 1..Len(runs) :
        /\ correlationResult' = <<CorrelationOf(runs[k].data)>>
        /\ correlationStatus' = "complete"
        /\ runs' = RemoveAt(runs, k)
        /\ UNCHANGED <<portfolioData, uploadVars, currentView, fileHistory, uploadedFiles, outsideUpload>>

\* runAnalysis after its await: the call rejects or its answer does not parse
RejectRun ==
    \E k \in 1..Len(runs) :
        /\ correlationStatus' = "error"
        /\ runs' = RemoveAt(runs, k)
        /\ UNCHANGED <<portfolioData, uploadVars, currentView, fileHistory, uploadedFiles,
                       correlationResult, outsideUpload>>

Next ==
    \/ SelectWeightsFile
    \/ StartPythonAnalysis
    \/ CompletePythonAnalysis
    \/ FailPythonAnalysis
    \/ StartProcessFile
    \/ CompleteProcessFile
    \/ LoadDemoData
    \/ ClearData
    \/ SidebarClick
    \/ Proceed
    \/ Recalculate
    \/ ResolveRun
    \/ RejectRun

Spec == Init /\ [][Next]_vars

-----------------------------------------------------------------------------
(* Properties of the ranking table (SpecRank) *)

RECURSIVE SumContribution(_)
SumContribution(rows) ==
    IF rows = <<>> THEN 0
    ELSE Head(rows).contribution + SumContribution(Tail(rows))

RECURSIVE SumWeight(_)
SumWeight(rows) ==
    IF rows = <<>> THEN 0 ELSE Head(rows).weight + SumWeight(Tail(rows))

Rendered == table # <<>>

\* C1: for every list of items handed to AttributionTable, duplicates of a
\* ticker included, the contributions of the Top Contributors rows, the Top
\* Disruptors rows and the Other Holdings row add up to the Total Portfolio
\* contribution, which is the sum of the contributions of all items.
C1_RowsAddUpToTotal ==
    Rendered =>
        /\ table[1].totalContrib = SumContribution(items)
        /\ SumContribution(table[1].topContributors)
             + SumContribution(table[1].topDisruptors)
             + table[1].otherContrib = table[1].totalContrib

\* C2: for every list of items, Other Holdings weight + Top Contributors
\* weights + Top Disruptors weights = 100, the weight shown on the Total
\* Portfolio row, whatever the items' weights add up to.
C2_WeightsAddUpTo100 ==
    Rendered =>
        /\ table[1].totalWeight = 100 * Scale
        /\ table[1].otherWeight + SumWeight(table[1].topContributors)
             + SumWeight(table[1].topDisruptors) = 100 * Scale

\* the positions of the items on one side of the partition
PositiveAt(its) == {p \in 1..Len(its) : its[p].contribution >= 0}
NegativeAt(its) == {p \in 1..Len(its) : its[p].contribution < 0}

\* the rank of position p among the positions P when the larger key goes
\* first and equal keys keep the input order
RankIn(P, key, p) ==
    1 + Cardinality({q \in P : key[q] > key[p] \/ (key[q] = key[p] /\ q < p)})

\* the first n of the positions P in that order, as rows
Ranked(its, P, key, n) ==
    LET m == IF Cardinality(P) < n THEN Cardinality(P) ELSE n
    IN  [k \in 1..m |-> its[CHOOSE p \in P : RankIn(P, key, p) = k]]

\* C7: Top Contributors are at most 5 items with contribution >= 0, in
\* descending order, none of the unselected items of that side larger than a
\* selected one; Top Disruptors are at most 5 items with contribution < 0,
\* most negative first, none of the unselected more negative than a selected
\* one; items of equal contribution keep their input order.
C7_Ranking ==
    Rendered =>
        LET top    == table[1].topContributors
            bottom == table[1].topDisruptors
            desc   == [p \in 1..Len(items) |-> items[p].contribution]
            asc    == [p \in 1..Len(items) |-> -items[p].contribution]
        IN  /\ Len(top) <= 5
            /\ Len(bottom) <= 5
            /\ \A k \in 1..Len(top) : top[k].contribution >= 0
            /\ \A k \in 1..Len(bottom) : bottom[k].contribution < 0
            /\ top = Ranked(items, PositiveAt(items), desc, 5)
            /\ bottom = Ranked(items, NegativeAt(items), asc, 5)

\* C7 witness: a rendered table with more positive items than rows, two of
\* the selected rows of equal contribution and distinct tickers, and rows of
\* different contributions
C7_Witness ==
    /\ Rendered
    /\ Cardinality(PositiveAt(items)) > 5
    /\ \E k \in 1..4 :
          /\ table[1].topContributors[k].contribution
               = table[1].topContributors[k + 1].contribution
          /\ table[1].topContributors[k].ticker
               # table[1].topContributors[k + 1].ticker
    /\ table[1].topContributors[1].contribution
         > table[1].topContributors[5].contribution

-----------------------------------------------------------------------------
(* Properties of the aggregation (SpecAgg) *)

Aggregated == aggRows # <<>>

\* the positions of a ticker's items in a bucket
PositionsOf(b, ticker) == {p \in 1..Len(b) : b[p].ticker = ticker}

RECURSIVE SumOver(_, _)
SumOver(P, f) ==
    IF P = {} THEN 0
    ELSE LET p == CHOOSE x \in P : TRUE IN f[p] + SumOver(P \ {p}, f)

\* C8: aggregatePeriodData returns exactly one row per distinct ticker of its
\* input, the row's contribution being the sum of the contributions of the
\* ticker's items, an undefined contribution counting as 0.
C8_OneRowPerTickerSummed ==
    Aggregated =>
        LET rows == aggRows[1]
            c == [p \in 1..Len(bucket) |-> OrZero(bucket[p].contribution)]
        IN  /\ {rows[k].ticker : k \in 1..Len(rows)}
                 = {bucket[p].ticker : p \in 1..Len(bucket)}
            /\ \A k, l \in 1..Len(rows) : rows[k].ticker = rows[l].ticker => k = l
            /\ \A k \in 1..Len(rows) :
                  rows[k].contribution
                    = SumOver(PositionsOf(bucket, rows[k].ticker), c)
            /\ SumContribution(rows) = SumOver(1..Len(bucket), c)

\* C8 witness: two rows, one of them the sum of two items, the other of an
\* item without contribution
C8_Witness ==
    /\ Aggregated
    /\ Len(aggRows[1]) = 2
    /\ \E p \in 1..Len(bucket) : bucket[p].contribution = Undefined
    /\ \E k \in 1..2 : aggRows[1][k].contribution = 80

\* C9: the aggregated weight of a ticker is the weight of the item with the
\* latest date among the ticker's items of the bucket, never an average or a
\* sum, in monthly and in quarterly tables.
C9_EndOfBucketWeight ==
    Aggregated =>
        \A k \in 1..Len(aggRows[1]) :
            LET row == aggRows[1][k]
                P == PositionsOf(bucket, row.ticker)
            IN  \E p \in P :
                    /\ \A q \in P : bucket[q].date <= bucket[p].date
                    /\ row.weight = bucket[p].weight

\* C10: the aggregated return of a ticker is sum(w_i * r_i) / sum(w_i) over
\* the ticker's items, and 0 when sum(w_i) is 0; never a division by zero.
C10_WeightedAverageReturn ==
    Aggregated =>
        \A k \in 1..Len(aggRows[1]) :
            LET row == aggRows[1][k]
                P == PositionsOf(bucket, row.ticker)
                w == [p \in 1..Len(bucket) |-> bucket[p].weight]
                wr == [p \in 1..Len(bucket) |->
                           bucket[p].weight * OrZero(bucket[p].returnPct)]
            IN  /\ row.returnPct.den # 0
                /\ IF SumOver(P, w) = 0
                   THEN row.returnPct.num = 0
                   ELSE RatEq(row.returnPct, Ratio(SumOver(P, wr), SumOver(P, w)))

-----------------------------------------------------------------------------
(* Properties of the attribution views (SpecView) *)

TickersOf(d) == {d[p].ticker : p \in 1..Len(d)}

\* the positions of the items of a ticker that fall in the selected range
InRange(d, ticker, tr) ==
    {p \in 1..Len(d) :
        /\ d[p].ticker = ticker
        /\ tr # "YTD" => GetMonth(d[p].date) \in QuarterMonths(tr)}

ContributionAt(d) == [p \in 1..Len(d) |-> OrZero(d[p].contribution)]

\* C3: for every ticker and every data set, whatever its dates and the
\* selected time range, the ticker's 12 monthly heatmap contributions (a
\* month without entries counting as 0) add up to the Total column, the
\* direct sum of the ticker's period contributions in the selected range.
C3_MonthsAddUpToTotal ==
    view.mode = "OVERVIEW" =>
        \A k \in 1..Len(view.rows) :
            LET row == view.rows[k]
                cell == [m \in 0..11 |->
                            IF row.cell[m] = Null THEN 0 ELSE row.cell[m]]
            IN  /\ row.total = SumOver(InRange(portfolioData, row.ticker, timeRange),
                                       ContributionAt(portfolioData))
                /\ SumOver(0..11, cell) = row.total

\* the contribution a table of the TABLES view holds for a ticker: that of
\* the ticker's item, 0 without one or without the table
ContributionIn(tbl, ticker) ==
    IF tbl = <<>> THEN 0
    ELSE LET its == tbl[1].items
             P == {k \in 1..Len(its) : its[k].ticker = ticker}
         IN  SumOver(P, [k \in 1..Len(its) |-> its[k].contribution])

\* C4: for every displayed quarter table and every ticker of the data, the
\* ticker's contribution in the quarter table is the sum of its contributions
\* in the three monthly tables of the quarter.
C4_QuarterIsSumOfMonths ==
    view.mode = "TABLES" =>
        \A q \in DOMAIN view.quarters :
            view.quarters[q] # <<>> =>
                \A ticker \in TickersOf(portfolioData) :
                    ContributionIn(view.quarters[q], ticker)
                      = SumOver(QuarterMonths(q),
                                [m \in 0..11 |->
                                    ContributionIn(view.months[m], ticker)])

CashTicker == "$CASH$"

\* the rows a table of the TABLES view holds for the cash ticker
CashRows(tbl) ==
    IF tbl = <<>> THEN {}
    ELSE {r \in Range(tbl[1].items) : r.ticker = CashTicker}

\* C6: the cash ticker has contribution 0 and return 0 in every period item
\* and in every aggregated month, quarter and year-to-date figure, whatever
\* the input data carry for it.
C6_CashIsZero ==
    /\ \A x \in Range(portfolioData) :
          x.ticker = CashTicker =>
              OrZero(x.contribution) = 0 /\ OrZero(x.returnPct) = 0
    /\ view.mode = "OVERVIEW" =>
          \A row \in Range(view.rows) :
              row.ticker = CashTicker =>
                  /\ row.total = 0
                  /\ \A m \in 0..11 : row.cell[m] \in {0, Null}
    /\ view.mode = "TABLES" =>
          /\ \A m \in DOMAIN view.months :
                \A r \in CashRows(view.months[m]) :
                    r.contribution = 0 /\ r.returnPct.num = 0
          /\ \A q \in DOMAIN view.quarters :
                \A r \in CashRows(view.quarters[q]) :
                    r.contribution = 0 /\ r.returnPct.num = 0

-----------------------------------------------------------------------------
(* The staged data under imports (Spec) *)

\* C5: after any sequence of imports, demo loads and clears, portfolioData
\* holds at most one item per (ticker, date) pair, the tickers compared
\* without regard to case
C5_UniquePerTickerDate ==
    \A i, j \in 1..Len(portfolioData) :
        GetKey(portfolioData[i]) = GetKey(portfolioData[j]) => i = j

-----------------------------------------------------------------------------
(* The Other Holdings return (SpecRank) *)

\* C11: the Other Holdings return is other contribution / other weight, in
\* percent, computed on the residual weight 100 - top weights; it is 0 when
\* the residual weight is approximately 0, and it is never the result of a
\* division by zero.
C11_OtherReturnOnResidual ==
    Rendered =>
        LET t        == table[1]
            residual == 100 * Scale - SumWeight(t.topContributors)
                                    - SumWeight(t.topDisruptors)
        IN  /\ t.otherReturn.den # 0
            /\ IF Abs(residual) * 1000 <= Scale
               THEN RatEq(t.otherReturn, Ratio(0, 1))
               ELSE RatEq(t.otherReturn,
                          Ratio(t.otherContrib * (100 * Scale), residual))

-----------------------------------------------------------------------------
(* SpecNorm: the two import paths' normalisation of what the analysis       *)
(* engine computes: decimal weights and returns, contribution = weight x    *)
(* return                                                                   *)

\* items of one answer or one file
MaxNormItems == 3

NormTickers == <<"T1", "T2", "T3", "T4">>

\* decimal weights: 0.50 and 1.00
NormWeights == {50, 100}

\* decimal returns: +0.10, -0.04, +1.00 and +2.00
NormReturns == {10, -4, 100, 200}

\* the engine's item: contribution = weight * return, on the decimal scale
EngineItem(t, w, r) == PortfolioItem(t, Today, w, r, (w * r) \div Scale)

NormChoices == [w : NormWeights, r : NormReturns]

InitNorm ==
    /\ \E n \in 0..MaxNormItems :
         \E ch \in [1..n -> NormChoices] :
            rawItems = [i \in 1..n |-> EngineItem(NormTickers[i], ch[i].w, ch[i].r)]
    /\ normalizedData = <<>>
    /\ IdleOutsideNorm

\* handlePythonAnalysis: results to normalizedResults
NormalizePython ==
    /\ normalizedData' = <<PythonNormalize(rawItems)>>
    /\ UNCHANGED <<outsideNorm, rawItems>>

\* processFile: parsedItems to normalizedData
NormalizeFile ==
    /\ Len(rawItems) > 0
    /\ normalizedData' = <<FileNormalize(rawItems)>>
    /\ UNCHANGED <<outsideNorm, rawItems>>

NextNorm == NormalizePython \/ NormalizeFile

SpecNorm == InitNorm /\ [][NextNorm]_vars

\* contribution = weight / 100 * returnPct, in percentage points
HoldsInPoints(p) == p.contribution * (100 * Scale) = p.weight * p.returnPct

\* the two items of the scenario: weights 0.50 / 0.50, returns +0.10 / -0.04
ScenarioItems ==
    <<EngineItem(NormTickers[1], 50, 10), EngineItem(NormTickers[2], 50, -4)>>

\* C12: for the items of the analysis engine, contribution = weight x return
\* survives the normalisation of either import path: every normalised item
\* has contribution = weight / 100 x returnPct in percentage points; weights
\* 0.50 / 0.50 with returns +0.10 / -0.04 give contributions 5.0 and -2.0,
\* total 3.0.
C12_ContributionSurvivesNormalisation ==
    normalizedData # <<>> =>
        /\ \A i \in 1..Len(normalizedData[1]) : HoldsInPoints(normalizedData[1][i])
        /\ rawItems = ScenarioItems =>
              /\ Len(normalizedData[1]) = 2
              /\ normalizedData[1][1].contribution = 5 * Scale
              /\ normalizedData[1][2].contribution = -2 * Scale
              /\ TotalContrib(normalizedData[1]) = 3 * Scale

-----------------------------------------------------------------------------
(* SpecHeat: the contribution heatmap of the OVERVIEW over data with flat   *)
(* positions (weight 0, contribution 0) and months without entries          *)

\* the heatmap cell: val === null || (isZeroVal && isZeroWeight)
ShowHyphen(val, maxW) ==
    \/ val = Null
    \/ /\ Abs(val) * 10000 < Scale
       /\ maxW * 10000 < Scale

\* the Total cell: isZeroTotal && isZeroLatestWeight
ShowTotalHyphen(row) ==
    /\ Abs(row.total) * 10000 < Scale
    /\ OrZero(row.latestWeight) * 10000 < Scale

\* the heatmap as shown: per row the cells, the '-' markers and the Total
Heatmap(d, tr) ==
    Map(MatrixData(d, tr), LAMBDA row :
        [ticker      |-> row.ticker,
         total       |-> row.total,
         cell        |-> row.cell,
         w           |-> row.w,
         hyphen      |-> [m \in DOMAIN row.cell |-> ShowHyphen(row.cell[m], row.w[m])],
         totalHyphen |-> ShowTotalHyphen(row)])

\* items of the staged data
MaxHeatItems == 3

HeatTickers == {"AAA", "BBB"}

HeatDates == {20240115, 20240215}

\* weight and contribution: a flat position, a position that earned nothing,
\* a position that earned 0.20
HeatValues == {<<0, 0>>, <<2000, 0>>, <<2000, 20>>}

HeatItems ==
    {PortfolioItem(t, d, v[1], 100, v[2]) :
        t \in HeatTickers, d \in HeatDates, v \in HeatValues}

InitHeat ==
    /\ \E n \in 0..MaxHeatItems : portfolioData \in [1..n -> HeatItems]
    /\ viewMode = "OVERVIEW"
    /\ timeRange = "YTD"
    /\ view = Heatmap(portfolioData, timeRange)
    /\ IdleOutsideView

\* the time range selector of the Overview
SetHeatTimeRange(tr) ==
    /\ viewMode = "OVERVIEW"
    /\ timeRange' = tr
    /\ view' = Heatmap(portfolioData, tr)
    /\ UNCHANGED <<outsideView, viewMode>>

NextHeat == \E tr \in TimeRanges : SetHeatTimeRange(tr)

SpecHeat == InitHeat /\ [][NextHeat]_vars

\* the items of a ticker in month m of the year shown, within the range
EntriesAt(ticker, m) ==
    {i \in InRange(portfolioData, ticker, timeRange) :
        /\ GetFullYear(portfolioData[i].date) = PrimaryYear(portfolioData)
        /\ GetMonth(portfolioData[i].date) = m}

\* a month in which the ticker is held flat: entries, all of weight 0 and
\* contribution 0
FlatAt(ticker, m) ==
    /\ EntriesAt(ticker, m) # {}
    /\ \A i \in EntriesAt(ticker, m) :
          portfolioData[i].weight = 0 /\ OrZero(portfolioData[i].contribution) = 0

\* C13: in the heatmap a (ticker, month) cell without any entry carries the
\* sentinel null, and a cell whose entries exist carries a number, 0 for a
\* flat position: the gap and the flat position differ in what the row holds.
C13_GapAndFlatDiffer ==
    \A r \in 1..Len(view) : \A m \in DOMAIN view[r].cell :
        /\ EntriesAt(view[r].ticker, m) = {} <=> view[r].cell[m] = Null
        /\ FlatAt(view[r].ticker, m) =>
              view[r].cell[m] = 0 /\ view[r].w[m] = 0

\* C13 witness: a row with a gap month and a flat month, both shown as '-'
C13_Witness ==
    \E r \in 1..Len(view) : \E m, k \in DOMAIN view[r].cell :
        /\ EntriesAt(view[r].ticker, m) = {}
        /\ FlatAt(view[r].ticker, k)
        /\ view[r].hyphen[m] /\ view[r].hyphen[k]
        /\ view[r].cell[m] # view[r].cell[k]

\* C14: a heatmap row shows the '-' marker in its Total cell only for a
\* ticker whose weight is zero in every item of the selected range; a ticker
\* with a non-zero weight somewhere in the range is never marked.
C14_RowHyphenOnlyWhenFlat ==
    \A r \in 1..Len(view) :
        view[r].totalHyphen =>
            \A i \in InRange(portfolioData, view[r].ticker, timeRange) :
                portfolioData[i].weight = 0

-----------------------------------------------------------------------------
(* The risk metrics of the OVERVIEW: beta, contribution volatility, Sharpe  *)

\* the greatest common divisor of two naturals, not both 0
RECURSIVE Gcd(_, _)
Gcd(a, b) == IF b = 0 THEN a ELSE Gcd(b, a % b)

\* the quotient n / d in lowest terms, d # 0
Fraction(n, d) ==
    LET g == Gcd(Abs(n), Abs(d))
    IN  IF d > 0 THEN Ratio(n \div g, d \div g) ELSE Ratio((-n) \div g, (-d) \div g)

\* a / b of two quotients, b # 0
FracDiv(a, b) == Fraction(a.num * b.den, a.den * b.num)

\* xs.reduce((a, b) => a + b, 0)
SumOf(xs) == Reduce(xs, LAMBDA a, b : a + b, 0)

\* xs.length || 1
LengthOr1(xs) == IF Len(xs) = 0 THEN 1 ELSE Len(xs)

\* xs.reduce((a, b) => a + b, 0) / (xs.length || 1)
MeanOf(xs) == Fraction(SumOf(xs), LengthOr1(xs))

\* xs.reduce((a, b) => a + Math.pow(b - mean, 2), 0)
SumSquaredDev(xs, mean) ==
    Fraction(Reduce(xs, LAMBDA a, b :
                 a + (b * mean.den - mean.num) * (b * mean.den - mean.num), 0),
             mean.den * mean.den)

\* the sum of squared deviations divided by n
DividedBy(q, n) == Fraction(q.num, q.den * n)

\* portRetSeries: per month of allMonths the contributions of the month summed
PortRetSeries(d, fd) ==
    [k \in 1..Cardinality(AllMonths(d)) |->
        TotalContrib(MonthlyEntries(fd, PrimaryYear(d), k - 1))]

\* portVariance
PortVariance(portRetSeries) ==
    DividedBy(SumSquaredDev(portRetSeries, MeanOf(portRetSeries)),
              LengthOr1(portRetSeries))

\* history.find(...): the first entry of the month, if any
FindEntry(history, y, m) ==
    LET e == MonthlyEntries(history, y, m) IN IF Len(e) > 0 THEN <<e[1]>> ELSE <<>>

\* tickerContribSeries: entry ? (entry.contribution || 0) : 0
TickerContribSeries(d, history) ==
    [k \in 1..Cardinality(AllMonths(d)) |->
        LET entry == FindEntry(history, PrimaryYear(d), k - 1)
        IN  IF entry # <<>> THEN OrZero(entry[1].contribution) ELSE 0]

\* varianceContrib
VarianceContrib(tickerContribSeries) ==
    DividedBy(SumSquaredDev(tickerContribSeries, MeanOf(tickerContribSeries)),
              LengthOr1(tickerContribSeries))

\* covariance: the loop over portRetSeries, then /= (portRetSeries.length || 1)
Covariance(tickerContribSeries, portRetSeries) ==
    LET meanContrib == MeanOf(tickerContribSeries)
        portMean    == MeanOf(portRetSeries)
        sum[i \in 0..Len(portRetSeries)] ==
            IF i = 0 THEN 0
            ELSE sum[i - 1]
                 + (tickerContribSeries[i] * meanContrib.den - meanContrib.num)
                   * (portRetSeries[i] * portMean.den - portMean.num)
    IN  DividedBy(Fraction(sum[Len(portRetSeries)], meanContrib.den * portMean.den),
                  LengthOr1(portRetSeries))

\* const beta = portVariance !== 0 ? covariance / portVariance : 0
Beta(covariance, portVariance) ==
    IF portVariance.num # 0 THEN FracDiv(covariance, portVariance) ELSE Ratio(0, 1)

\* tickerStats, the risk part: per ticker the series, its variance and beta
RiskStats(d, tr) ==
    LET fd            == FilteredOverviewData(d, tr)
        portRetSeries == PortRetSeries(d, fd)
        portVariance  == PortVariance(portRetSeries)
    IN  Map(UniqueTickers(fd), LAMBDA ticker :
            LET history == SelectSeq(fd, LAMBDA x : x.ticker = ticker)
                tickerContribSeries == TickerContribSeries(d, history)
            IN  [ticker              |-> ticker,
                 tickerContribSeries |-> tickerContribSeries,
                 varianceContrib     |-> VarianceContrib(tickerContribSeries),
                 beta |-> Beta(Covariance(tickerContribSeries, portRetSeries),
                               portVariance)])

\* heatmapTotals.monthlyReturns: the column totals of the months that have a
\* non-null cell, in month order
MonthlyReturns(d, tr) ==
    LET rows == MatrixData(d, tr)
        HasData(m) == \E r \in 1..Len(rows) : rows[r].cell[m] # Null
        Total(m) ==
            Reduce(rows, LAMBDA a, row :
                       IF row.cell[m] # Null THEN a + row.cell[m] ELSE a, 0)
        upTo[k \in 0..Cardinality(AllMonths(d))] ==
            IF k = 0 THEN <<>>
            ELSE IF HasData(k - 1) THEN Append(upTo[k - 1], Total(k - 1))
                 ELSE upTo[k - 1]
    IN  upTo[Cardinality(AllMonths(d))]

\* Math.sign
Sign(x) == IF x > 0 THEN 1 ELSE IF x < 0 THEN -1 ELSE 0

\* a number known by its sign and its square: what is left exact of a value
\* that went through Math.sqrt
Rooted(sign, square) == [sign |-> sign, square |-> square]

\* the variance of sharpeRatio: the squared deviations divided by length - 1
SharpeVariance(returns) ==
    DividedBy(SumSquaredDev(returns, MeanOf(returns)), Len(returns) - 1)

\* a Sharpe ratio left monthly: mean / stdDev without the Math.sqrt(12)
SharpeRatioMonthly(returns) ==
    IF Len(returns) < 2 THEN Rooted(0, Ratio(0, 1))
    ELSE LET mean     == MeanOf(returns)
             variance == SharpeVariance(returns)
         IN  IF variance.num = 0 THEN Rooted(0, Ratio(0, 1))
             ELSE Rooted(Sign(mean.num),
                         FracDiv(Fraction(mean.num * mean.num,
                                          mean.den * mean.den), variance))

\* sharpeRatio: (mean / stdDev) * Math.sqrt(12), 0 on fewer than 2 returns
\* and on stdDev === 0
SharpeRatio(returns) ==
    IF Len(returns) < 2 THEN Rooted(0, Ratio(0, 1))
    ELSE LET mean     == MeanOf(returns)
             variance == SharpeVariance(returns)
         IN  IF variance.num = 0 THEN Rooted(0, Ratio(0, 1))
             ELSE Rooted(Sign(mean.num),
                         FracDiv(Fraction(12 * mean.num * mean.num,
                                          mean.den * mean.den), variance))

\* the risk metrics the OVERVIEW shows: the portfolio series and its
\* variance, the per-ticker statistics, the monthly returns and the Sharpe
\* ratio with the variance it was computed from (none on an early return)
RiskView(d, tr) ==
    LET fd      == FilteredOverviewData(d, tr)
        returns == MonthlyReturns(d, tr)
    IN  [portRetSeries  |-> PortRetSeries(d, fd),
         portVariance   |-> PortVariance(PortRetSeries(d, fd)),
         tickerStats    |-> RiskStats(d, tr),
         monthlyReturns |-> returns,
         sharpeVariance |-> IF Len(returns) < 2 THEN <<>>
                            ELSE <<SharpeVariance(returns)>>,
         sharpeRatio    |-> SharpeRatio(returns)]

-----------------------------------------------------------------------------
(* SpecRisk: the risk metrics over data with several items in a month and   *)
(* months that cancel out                                                   *)

MaxRiskItems == 3

RiskTickers == {"AAA", "BBB"}

\* two dates of January and one of February for the first ticker, one date
\* of February for the others
RiskDates(t) ==
    IF t = "AAA" THEN {20240110, 20240120, 20240215} ELSE {20240215}

\* contributions of -0.20 and +0.20
RiskContribs == {-20, 20}

RiskItems ==
    UNION {{PortfolioItem(t, d, 2000, 100, c) :
                d \in RiskDates(t), c \in RiskContribs} : t \in RiskTickers}

InitRisk ==
    /\ \E n \in 0..MaxRiskItems : portfolioData \in [1..n -> RiskItems]
    /\ viewMode = "OVERVIEW"
    /\ timeRange = "YTD"
    /\ view = RiskView(portfolioData, timeRange)
    /\ IdleOutsideView

\* the time range selector of the Overview
SetRiskTimeRange(tr) ==
    /\ viewMode = "OVERVIEW"
    /\ timeRange' = tr
    /\ view' = RiskView(portfolioData, tr)
    /\ UNCHANGED <<outsideView, viewMode>>

NextRisk == \E tr \in TimeRanges : SetRiskTimeRange(tr)

SpecRisk == InitRisk /\ [][NextRisk]_vars

-----------------------------------------------------------------------------
(* Properties of the risk metrics (SpecRisk) *)

\* the selected range's items of a ticker in month m of the year shown
RiskEntriesAt(ticker, m) ==
    {i \in InRange(portfolioData, ticker, timeRange) :
        /\ GetFullYear(portfolioData[i].date) = PrimaryYear(portfolioData)
        /\ GetMonth(portfolioData[i].date) = m}

\* a ticker's monthly contribution series: per month the sum of its
\* contributions, 0 for a month without entries
MonthlySeriesOf(ticker) ==
    [k \in 1..12 |-> SumOver(RiskEntriesAt(ticker, k - 1), ContributionAt(portfolioData))]

\* the portfolio's monthly contribution series: the tickers' series added up
PortfolioSeries ==
    [k \in 1..12 |->
        SumOver(UNION {RiskEntriesAt(t, k - 1) : t \in TickersOf(portfolioData)},
                ContributionAt(portfolioData))]

\* n * sum(x * y) - sum(x) * sum(y): n^2 times the population covariance
CovTimesN2(xs, ys) ==
    Len(xs) * SumOf([k \in 1..Len(xs) |-> xs[k] * ys[k]]) - SumOf(xs) * SumOf(ys)

\* C15: for every ticker, beta = Cov(ticker monthly contribution series,
\* portfolio monthly contribution series) / Var(portfolio series), and beta
\* is exactly 0 whenever the portfolio variance is 0; no beta is the result
\* of a division by zero.
C15_BetaIsCovOverVar ==
    \A r \in 1..Len(view.tickerStats) :
        LET beta == view.tickerStats[r].beta
            ts   == MonthlySeriesOf(view.tickerStats[r].ticker)
            var  == CovTimesN2(PortfolioSeries, PortfolioSeries)
        IN  /\ beta.den # 0
            /\ IF var = 0 THEN beta.num = 0
               ELSE RatEq(beta, Ratio(CovTimesN2(ts, PortfolioSeries), var))

\* C16: with a single ticker in the data and a portfolio variance that is not
\* 0, the ticker's beta is 1, however many items the ticker has in a month.
C16_BetaOfPortfolioIsOne ==
    (/\ Cardinality(TickersOf(portfolioData)) = 1
     /\ CovTimesN2(PortfolioSeries, PortfolioSeries) # 0)
        => \A r \in 1..Len(view.tickerStats) :
              RatEq(view.tickerStats[r].beta, Ratio(1, 1))

\* the months of the year shown in which some ticker has an entry of the
\* selected range: the monthly observations of the portfolio return
ObservedMonths ==
    {k \in 1..12 : \E t \in TickersOf(portfolioData) : RiskEntriesAt(t, k - 1) # {}}

\* the sum over the observed months of the portfolio's monthly return raised
\* to the power e (1 or 2)
ObservedSum(e) ==
    SumOver(ObservedMonths,
            [k \in 1..12 |-> IF e = 1 THEN PortfolioSeries[k]
                             ELSE PortfolioSeries[k] * PortfolioSeries[k]])

PopulationVariance(xs) == Ratio(CovTimesN2(xs, xs), Len(xs) * Len(xs))

\* C18: every variance of the risk metrics is the population variance of its
\* series (squared deviations divided by the number N of observations): the
\* portfolio variance of beta, each ticker's contribution variance and the
\* variance under the Sharpe ratio's standard deviation.
C18_PopulationVariance ==
    /\ Len(view.portRetSeries) > 0
          => RatEq(view.portVariance, PopulationVariance(view.portRetSeries))
    /\ \A r \in 1..Len(view.tickerStats) :
          Len(view.tickerStats[r].tickerContribSeries) > 0
             => RatEq(view.tickerStats[r].varianceContrib,
                      PopulationVariance(view.tickerStats[r].tickerContribSeries))
    /\ Len(view.sharpeVariance) > 0
          => RatEq(view.sharpeVariance[1], PopulationVariance(view.monthlyReturns))

-----------------------------------------------------------------------------
(* api: the caches of reference values behind fetchSectors and fetchBetas *)

\* the keys of a cache or of a response
Keys(cache) == DOMAIN cache

\* { ...cache } of no entry
EmptyCache == [t \in {} |-> Undefined]

\* a cache or response holding the value v for every ticker of S
Holding(S, v) == [t \in S |-> v]

\* the response put in place of the cache: sectorCache = newSectors
Replace(cache, newValues) == newValues

\* { ...sectorCache, ...newSectors }: the cache with the response's entries
\* added, a key of both taking the response's value
Spread(cache, newValues) ==
    [t \in Keys(cache) \cup Keys(newValues) |->
        IF t \in Keys(newValues) THEN newValues[t] ELSE cache[t]]

\* the cache a fetcher works on
CacheOf(fn) == IF fn = "fetchSectors" THEN sectorCache ELSE betaCache

\* tickers.filter(ticker => !sectorCache[ticker]) and
\* tickers.filter(ticker => betaCache[ticker] === undefined)
MissingTickers(cache, tickers) == {t \in tickers : t \notin Keys(cache)}

\* step 4: the requested tickers' entries of the cache
ResultFrom(cache, tickers) == [t \in tickers \cap Keys(cache) |-> cache[t]]

\* a call awaiting fetch(...)
AwaitingFetch(fn, tickers, missingTickers) ==
    [fn |-> fn, tickers |-> tickers, missingTickers |-> missingTickers,
     at |-> "fetch", failed |-> FALSE, result |-> EmptyCache]

\* a call that returned result, after a fetch that failed or not
Returned(call, failed, result) ==
    [call EXCEPT !.at = "returned", !.failed = failed, !.result = result]

\* calls with the i-th replaced
WithCall(i, call) == [calls EXCEPT ![i] = call]

MaxFetches == 2

FetchTickers == {"AAA", "BBB"}

Fetchers == {"fetchSectors", "fetchBetas"}

\* the values a response may hold for a ticker: sector names, betas of 0
\* and 1.20
ResponseValues(fn) == IF fn = "fetchSectors" THEN {"Tech", "Energy"} ELSE {0, 120}

\* the responses to a request for missingTickers: any part of them, the
\* parsed JSON holding one value per ticker answered
Responses(fn, missingTickers) ==
    UNION {[S -> ResponseValues(fn)] : S \in SUBSET missingTickers}

\* what the fetchers leave alone
outsideCache == <<portfolioData, uploadVars, fnVars, viewVars, normVars, editorVars, appVars, mergeVars>>

\* the state outside the caches and their fetchers
IdleOutsideCache == portfolioData = <<>> /\ NoUpload /\ NoCall /\ NoView /\ NoNorm /\ NoEditor /\ NoApp /\ NoMerge

\* the module is loaded: each cache is what localStorage held, nothing or an
\* entry for the first ticker
InitCache ==
    /\ sectorCache \in {EmptyCache, Holding({"AAA"}, "Tech")}
    /\ betaCache \in {EmptyCache, Holding({"AAA"}, 0)}
    /\ calls = <<>>
    /\ IdleOutsideCache

\* fetchSectors(tickers) / fetchBetas(tickers) up to the first await: with
\* nothing missing the call returns at once from the cache
CallFetch(fn, tickers) ==
    LET missingTickers == MissingTickers(CacheOf(fn), tickers)
        call == AwaitingFetch(fn, tickers, missingTickers)
    IN  /\ Len(calls) < MaxFetches
        /\ calls' = Append(calls,
              IF missingTickers = {}
              THEN Returned(call, FALSE, ResultFrom(CacheOf(fn), tickers))
              ELSE call)
        /\ UNCHANGED <<sectorCache, betaCache>>

\* await fetch(...) resolves: response.ok goes on to response.json(), a
\* non-OK response logs and returns what the cache holds
FetchResolves(i, ok) ==
    /\ calls[i].at = "fetch"
    /\ calls' = WithCall(i,
          IF ok THEN [calls[i] EXCEPT !.at = "json"]
          ELSE Returned(calls[i], TRUE,
                        ResultFrom(CacheOf(calls[i].fn), calls[i].tickers)))
    /\ UNCHANGED <<sectorCache, betaCache>>

\* await fetch(...) or await response.json() rejects: the catch logs and the
\* call returns what the cache holds
AwaitRejects(i) ==
    /\ calls[i].at \in {"fetch", "json"}
    /\ calls' = WithCall(i,
          Returned(calls[i], TRUE,
                   ResultFrom(CacheOf(calls[i].fn), calls[i].tickers)))
    /\ UNCHANGED <<sectorCache, betaCache>>

\* await response.json() resolves: the cache takes the new values and the
\* call returns the requested entries of it
JsonResolves(i, newValues) ==
    LET fn    == calls[i].fn
        cache == Spread(CacheOf(fn), newValues)
    IN  /\ calls[i].at = "json"
        /\ sectorCache' = IF fn = "fetchSectors" THEN cache ELSE sectorCache
        /\ betaCache' = IF fn = "fetchBetas" THEN cache ELSE betaCache
        /\ calls' = WithCall(i,
              Returned(calls[i], FALSE, ResultFrom(cache, calls[i].tickers)))


NextCache ==
    \/ \E fn \in Fetchers, tickers \in SUBSET FetchTickers \ {{}} :
          CallFetch(fn, tickers) /\ UNCHANGED outsideCache
    \/ \E i \in 1..Len(calls), ok \in BOOLEAN :
          FetchResolves(i, ok) /\ UNCHANGED outsideCache
    \/ \E i \in 1..Len(calls) : AwaitRejects(i) /\ UNCHANGED outsideCache
    \/ \E i \in 1..Len(calls) :
          \E newValues \in Responses(calls[i].fn, calls[i].missingTickers) :
             JsonResolves(i, newValues) /\ UNCHANGED outsideCache

SpecCache == InitCache /\ [][NextCache]_vars

-----------------------------------------------------------------------------
(* Properties of the caches (SpecCache) *)

\* every entry of the cache before the step is an entry of the cache after
KeepsEntries(before, after) == \A t \in DOMAIN before : t \in DOMAIN after

\* the i-th call returns in this step
ReturnsNow(i) ==
    /\ calls'[i].at = "returned"
    /\ IF i \in 1..Len(calls) THEN calls[i].at # "returned" ELSE TRUE

\* the result holds, for each requested ticker, the value the cache holds
\* for it, and nothing else
ReadsCache(result, tickers, cache) ==
    /\ DOMAIN result = tickers \cap DOMAIN cache
    /\ \A t \in DOMAIN result : result[t] = cache[t]

-----------------------------------------------------------------------------
(* ManualEntryModal: the manual portfolio editor *)

\* Number.NaN
NaN == -999997

\* s || d of a string
OrText(s, d) == IF s = "" THEN d ELSE s

\* parseFloat of the texts a weight input holds here
ParseFloat(s) ==
    CASE s \in {"", "."}         -> NaN
      [] s \in {"0", "0.00"}     -> 0
      [] s = "50.00"             -> 50 * Scale
      [] s \in {"50.2", "50.20"} -> 50 * Scale + 20
      [] s = "50.05"             -> 50 * Scale + 5

\* num.toFixed(2) of the numbers above
ToFixed2(num) ==
    CASE num = 0               -> "0.00"
      [] num = 50 * Scale      -> "50.00"
      [] num = 50 * Scale + 20 -> "50.20"
      [] num = 50 * Scale + 5  -> "50.05"

\* /^\d*\.?\d*$/.test(val)
IsDecimalText(val) == val \in {"", ".", "0", "0.00", "50.00", "50.2", "50.20", "50.05"}

\* a + b of two numbers, NaN when either is
Plus(a, b) == IF a = NaN \/ b = NaN THEN NaN ELSE a + b

\* interface AllocationPeriod
AllocationPeriod(id, startDate, weights) ==
    [id |-> id, startDate |-> startDate, weights |-> weights]

\* period.weights[ticker], '' standing for a key the period does not have
WeightText(period, ticker) ==
    IF ticker \in DOMAIN period.weights THEN period.weights[ticker] ELSE ""

\* { ...weights, [ticker]: val }
WithWeight(weights, ticker, val) ==
    [t \in DOMAIN weights \cup {ticker} |-> IF t = ticker THEN val ELSE weights[t]]

\* calculateTotal: the parsed weights of the tickers listed, added up
calculateTotal(period) ==
    Reduce(tickerRows, LAMBDA total, t :
              Plus(total, ParseFloat(OrText(WeightText(period, t), "0"))), 0)

\* a total shown as valid when within one point of 100
IsTotalValidWithinOne(total) == total # NaN /\ Abs(total - 100 * Scale) < Scale

\* isTotalValid: Math.abs(total - 100) < 0.1
IsTotalValid(total) == total # NaN /\ Abs(total - 100 * Scale) * 10 < Scale

\* the style of the "Allocated" badge of a period
BadgeStyle(period) ==
    IF IsTotalValid(calculateTotal(period)) THEN "green" ELSE "amber"

\* handleSubmit: a rebalance entry per period and listed ticker of weight > 0
FlatItems ==
    Reduce(periods, LAMBDA flatItems, period :
        Reduce(tickerRows, LAMBDA acc, t :
            LET weight == ParseFloat(OrText(WeightText(period, t), "0"))
            IN  IF weight # NaN /\ weight > 0
                THEN Append(acc, PortfolioItem(t, period.startDate, weight,
                                               Undefined, Undefined))
                ELSE acc, flatItems), <<>>)

\* periods.map(p => p.id !== periodId ? p : { ...p, weights: ... })
MapPeriod(periodId, ticker, val) ==
    [k \in 1..Len(periods) |->
        IF periods[k].id # periodId THEN periods[k]
        ELSE [periods[k] EXCEPT !.weights = WithWeight(@, ticker, val)]]

\* tickers.find(t => t.ticker === ticker) finds one
HasValue(xs, x) == \E k \in 1..Len(xs) : xs[k] = x

RECURSIVE Without(_, _)
\* tickers.filter(t => t.ticker !== tickerToRemove)
Without(xs, x) ==
    IF xs = <<>> THEN <<>>
    ELSE IF Head(xs) = x THEN Without(Tail(xs), x)
         ELSE <<Head(xs)>> \o Without(Tail(xs), x)

RECURSIVE WithoutId(_, _)
\* periods.filter(p => p.id !== id)
WithoutId(ps, id) ==
    IF ps = <<>> THEN <<>>
    ELSE IF Head(ps).id = id THEN WithoutId(Tail(ps), id)
         ELSE <<Head(ps)>> \o WithoutId(Tail(ps), id)

MaxPeriods == 2

\* what the user types into a weight input
TypedWeights == {".", "50.2", "50.05", "-1"}

\* the tickers the user adds
TypedTickers == {"NEW"}

\* the rows whose weight inputs the user types in
EditedTickers == {"SPY"}

\* the rows the user removes
RemovedTickers == {"QQQ", "NEW"}

\* the start dates the user picks
PickedDates == {20240701}

\* what the editor leaves alone
outsideEditor == <<portfolioData, uploadVars, fnVars, viewVars, normVars, cacheVars, appVars, mergeVars>>

\* the state outside the editor
IdleOutsideEditor == portfolioData = <<>> /\ NoUpload /\ NoCall /\ NoView /\ NoNorm /\ NoFetch /\ NoApp /\ NoMerge

\* the editor as its parent opens it: the useState initial values
InitEditor ==
    /\ isOpen = TRUE
    /\ tickerRows = <<"CASH", "SPY", "QQQ">>
    /\ periods = <<AllocationPeriod(1, Today,
                      [t \in {"CASH", "SPY", "QQQ"} |->
                          IF t = "CASH" THEN "0.00" ELSE "50.00"])>>
    /\ submitted = <<>>
    /\ IdleOutsideEditor

handleAddTicker(newTickerInput) ==
    /\ isOpen
    /\ ~HasValue(tickerRows, newTickerInput)
    /\ tickerRows' = Append(tickerRows, newTickerInput)
    /\ periods' = [k \in 1..Len(periods) |->
                      [periods[k] EXCEPT !.weights = WithWeight(@, newTickerInput, "0.00")]]
    /\ UNCHANGED <<outsideEditor, isOpen, submitted>>

handleRemoveTicker(tickerToRemove) ==
    /\ isOpen
    /\ HasValue(tickerRows, tickerToRemove)
    /\ tickerRows' = Without(tickerRows, tickerToRemove)
    /\ UNCHANGED <<outsideEditor, isOpen, periods, submitted>>

handleWeightChange(idx, ticker, val) ==
    /\ isOpen
    /\ IsDecimalText(val)
    /\ periods' = MapPeriod(periods[idx].id, ticker, val)
    /\ UNCHANGED <<outsideEditor, isOpen, tickerRows, submitted>>

handleWeightBlur(idx, ticker) ==
    LET num       == ParseFloat(WeightText(periods[idx], ticker))
        formatted == IF num = NaN THEN "0.00" ELSE ToFixed2(num)
    IN  /\ isOpen
        /\ periods' = MapPeriod(periods[idx].id, ticker, formatted)
        /\ UNCHANGED <<outsideEditor, isOpen, tickerRows, submitted>>

handleAddPeriod ==
    /\ isOpen
    /\ Len(periods) < MaxPeriods
    /\ periods' = Append(periods,
          AllocationPeriod(Len(periods) + 1, Today,
              IF Len(periods) > 0 THEN periods[Len(periods)].weights
              ELSE [t \in Range(tickerRows) |-> "0.00"]))
    /\ UNCHANGED <<outsideEditor, isOpen, tickerRows, submitted>>

handleRemovePeriod(id) ==
    /\ isOpen
    /\ Len(periods) > 1
    /\ periods' = WithoutId(periods, id)
    /\ UNCHANGED <<outsideEditor, isOpen, tickerRows, submitted>>

handleDateChange(id, val) ==
    /\ isOpen
    /\ periods' = [k \in 1..Len(periods) |->
                      IF periods[k].id # id THEN periods[k]
                      ELSE [periods[k] EXCEPT !.startDate = val]]
    /\ UNCHANGED <<outsideEditor, isOpen, tickerRows, submitted>>

\* handleSubmit: onSubmit(flatItems); onClose()
handleSubmit ==
    /\ isOpen
    /\ submitted' = Append(submitted, FlatItems)
    /\ isOpen' = FALSE
    /\ UNCHANGED <<outsideEditor, tickerRows, periods>>

\* the Cancel and X buttons: onClose()
onClose ==
    /\ isOpen
    /\ isOpen' = FALSE
    /\ UNCHANGED <<outsideEditor, tickerRows, periods, submitted>>

NextEditor ==
    \/ \E t \in TypedTickers : handleAddTicker(t)
    \/ \E t \in RemovedTickers : handleRemoveTicker(t)
    \/ \E idx \in 1..Len(periods), t \in EditedTickers \cap Range(tickerRows) :
          \E val \in TypedWeights : handleWeightChange(idx, t, val)
    \/ \E idx \in 1..Len(periods), t \in EditedTickers \cap Range(tickerRows) :
          handleWeightBlur(idx, t)
    \/ handleAddPeriod
    \/ \E idx \in 1..Len(periods) : handleRemovePeriod(periods[idx].id)
    \/ \E idx \in 1..Len(periods), val \in PickedDates :
          handleDateChange(periods[idx].id, val)
    \/ handleSubmit
    \/ onClose

SpecEditor == InitEditor /\ [][NextEditor]_vars

-----------------------------------------------------------------------------
(* Properties of the manual editor (SpecEditor) *)

\* the weight the editor holds for a listed ticker in a period, as a number
WeightOf(period, ticker) == ParseFloat(OrText(WeightText(period, ticker), "0"))

\* the period's weights are numbers and their sum is more than 0.1 away
\* from 100
Deviates(period) ==
    /\ \A t \in Range(tickerRows) : WeightOf(period, t) # NaN
    /\ Abs(SumOver(Range(tickerRows), [t \in Range(tickerRows) |-> WeightOf(period, t)])
           - 100 * Scale) * 10 > Scale

\* the cells (period, ticker row) holding a weight above 0
PositiveCells ==
    {c \in (1..Len(periods)) \X (1..Len(tickerRows)) :
        /\ WeightOf(periods[c[1]], tickerRows[c[2]]) # NaN
        /\ WeightOf(periods[c[1]], tickerRows[c[2]]) > 0}

\* the item of a cell: ticker, weight and the period's start date
ItemOfCell(c) ==
    [ticker |-> tickerRows[c[2]], date |-> periods[c[1]].startDate,
     weight |-> WeightOf(periods[c[1]], tickerRows[c[2]]),
     returnPct |-> Undefined, contribution |-> Undefined]

\* C20: while the editor is open, every period whose summed weights deviate
\* from 100 by more than 0.1 wears the warning (amber) style and not the
\* valid one; the Analyze button's handleSubmit can be taken whatever the
\* totals are, and taking it hands onSubmit one item per period and listed
\* ticker of positive weight and closes the editor.
C20_MismatchWarnsNeverBlocks ==
    /\ [](isOpen =>
             /\ \A idx \in 1..Len(periods) :
                   Deviates(periods[idx]) => BadgeStyle(periods[idx]) = "amber"
             /\ ENABLED handleSubmit)
    /\ [][submitted' # submitted =>
             /\ Len(submitted') = Len(submitted) + 1
             /\ Len(submitted'[Len(submitted')]) = Cardinality(PositiveCells)
             /\ Range(submitted'[Len(submitted')]) = {ItemOfCell(c) : c \in PositiveCells}
             /\ ~isOpen']_vars

\* the editor was submitted and closed with a period off 100 by more than
\* 0.1 and items emitted for it
C20_Witness ==
    /\ ~isOpen
    /\ submitted # <<>>
    /\ \E idx \in 1..Len(periods) :
          /\ Deviates(periods[idx])
          /\ BadgeStyle(periods[idx]) = "amber"
          /\ \E k \in 1..Len(submitted[1]) :
                submitted[1][k].date = periods[idx].startDate

-----------------------------------------------------------------------------
(* SpecParse: processFile from the cells of a sheet with ticker and weight   *)
(* columns to the data handed to onDataLoaded                                *)

\* cleanNumber of the cell texts used here: characters other than digits,
\* '.', '-' and parentheses are removed, a parenthesised number is negative,
\* and what parseFloat cannot read is 0
cleanNumber(val) ==
    CASE val = ""     -> 0
      [] val = "abc"  -> 0
      [] val = "25"   -> 25 * Scale
      [] val = "25%"  -> 25 * Scale
      [] val = "-5"   -> -5 * Scale
      [] val = "(5)"  -> -5 * Scale

\* the row of a sheet with ticker and weight columns
SheetRow(ticker, weight) == [ticker |-> ticker, weight |-> weight]

\* processFile: parsedItems of a sheet with ticker and weight columns only
ParseRows(rawRows) ==
    Map(rawRows, LAMBDA row :
        PortfolioItem(row.ticker, Today, cleanNumber(row.weight), Undefined, Undefined))

MaxRows == 3

ParseTickers == <<"T1", "T2", "T3", "T4">>

WeightCells == {"", "abc", "25", "25%", "-5", "(5)"}

InitParse ==
    /\ \E n \in 1..MaxRows :
         \E cells \in [1..n -> WeightCells] :
            rawItems = [i \in 1..n |-> SheetRow(ParseTickers[i], cells[i])]
    /\ normalizedData = <<>>
    /\ IdleOutsideNorm

\* processFile with nothing staged: the rows parsed, normalised and filtered;
\* no parsed item throws "No valid portfolio data extracted."
ProcessSheet ==
    /\ normalizedData = <<>>
    /\ Len(ParseRows(rawItems)) > 0
    /\ normalizedData' = <<FileNormalize(ParseRows(rawItems))>>
    /\ UNCHANGED <<outsideNorm, rawItems>>

NextParse == ProcessSheet

SpecParse == InitParse /\ [][NextParse]_vars

\* C21: no item with a negative or NaN weight is present in the data that
\* processFile hands to onDataLoaded: a snapshot of negative or unreadable
\* weight is dropped on import.
C21_MalformedWeightsDropped ==
    \A k \in 1..Len(normalizedData) :
        \A i \in 1..Len(normalizedData[k]) :
            /\ normalizedData[k][i].weight # NaN
            /\ normalizedData[k][i].weight >= 0

-----------------------------------------------------------------------------
(* Imports that overlap (Spec) *)

\* the (ticker, date) keys a list holds
KeysOf(data) == {GetKey(x) : x \in Range(data)}

\* a step in which an import returns: handlePythonAnalysis or processFile
\* runs from its await to its end
ImportReturns == Len(inFlight') = Len(inFlight) - 1

\* C22: no completed import is lost: when an import completes, the records
\* staged at that moment, those of an import that completed while this one
\* was running included, are still in portfolioData, merged with its own
C22_NoCompletedImportLost ==
    [][ImportReturns => KeysOf(portfolioData) \subseteq KeysOf(portfolioData')]_vars

\* C23: Clear Data is final: an import that returns while nothing is staged,
\* the data it captured at its start having been cleared meanwhile, stages
\* its own rows only; no cleared record is in portfolioData again
C23_ClearIsFinal ==
    [][\A k \in 1..Len(inFlight) :
          (inFlight' = RemoveAt(inFlight, k) /\ Len(portfolioData) = 0)
              => KeysOf(portfolioData') \subseteq KeysOf(inFlight[k].payload)]_vars

-----------------------------------------------------------------------------
(* The correlation analysis and the navigation (Spec) *)

\* C24: whenever correlationStatus is 'complete' and correlationResult is
\* not null, the result stored was computed from the
\* portfolioData loaded now: an analysis started on earlier data does not
\* install its result after the data was replaced
C24_ResultMatchesLoadedData ==
    (correlationStatus = "complete" /\ correlationResult # NoResult)
        => correlationResult = <<CorrelationOf(portfolioData)>>

\* C25: the views that need data are shown only while data is loaded:
\* whenever currentView is DASHBOARD, ATTRIBUTION or CORRELATION,
\* portfolioData is not empty
C25_DataViewsHaveData ==
    currentView \in {"DASHBOARD", "ATTRIBUTION", "CORRELATION"} => Len(portfolioData) > 0

-----------------------------------------------------------------------------
(* The periods of the manual editor (SpecEditor) *)

\* C26: after any sequence of add-period and remove-period actions the
\* editor holds at least one period
C26_AtLeastOnePeriod == isOpen => Len(periods) >= 1

-----------------------------------------------------------------------------
(* SpecMerge: mergePortfolios called on two lists *)

\* items of either list
MaxMerge == 2

\* the items of the lists: one key written in two cases, a zero weight,
\* undefined values, and a second key
MergeItems ==
    { PortfolioItem("AAA", Today, 1000, 100, 10),
      PortfolioItem("aaa", Today, 2000, 200, 40),
      PortfolioItem("aaa", Today, 0, Undefined, Undefined),
      PortfolioItem("BBB", Today, 3000, Undefined, 30) }

outsideMerge == <<portfolioData, uploadVars, fnVars, viewVars, normVars, cacheVars, editorVars, appVars>>

IdleOutsideMerge == portfolioData = <<>> /\ NoUpload /\ NoCall /\ NoView /\ NoNorm /\ NoFetch /\ NoEditor /\ NoApp

InitMerge ==
    /\ \E n \in 0..MaxMerge : \E l \in [1..n -> MergeItems] : mergeCurrent = l
    /\ \E n \in 0..MaxMerge : \E l \in [1..n -> MergeItems] : mergeIncoming = l
    /\ merged = <<>>
    /\ IdleOutsideMerge

\* the call mergePortfolios(current, incoming)
CallMerge ==
    /\ merged = <<>>
    /\ merged' = <<mergePortfolios(mergeCurrent, mergeIncoming)>>
    /\ UNCHANGED <<mergeCurrent, mergeIncoming, outsideMerge>>

NextMerge == CallMerge

SpecMerge == InitMerge /\ [][NextMerge]_vars

\* the items of a list under a key, in the list's order
ItemsWithKey(list, key) == SelectSeq(list, LAMBDA x : GetKey(x) = key)

\* the one item of a list under a key; of several, as Map.set leaves it, the last
ItemWithKey(list, key) == ItemsWithKey(list, key)[Len(ItemsWithKey(list, key))]

\* a list without two items of one key
DuplicateFree(list) ==
    \A i, j \in 1..Len(list) : GetKey(list[i]) = GetKey(list[j]) => i = j

\* what the claim says of a key both lists hold
IncomingWinsButForZeroAndUndefined(existing, item, r) ==
    /\ r.ticker = item.ticker
    /\ r.date = item.date
    /\ r.weight = (IF item.weight # 0 THEN item.weight ELSE existing.weight)
    /\ r.contribution = (IF item.contribution # Undefined
                         THEN item.contribution ELSE existing.contribution)
    /\ r.returnPct = (IF item.returnPct # Undefined
                      THEN item.returnPct ELSE existing.returnPct)

-----------------------------------------------------------------------------
(* Cash in the tables of the TABLES view (SpecView) *)

\* the Total Portfolio contribution a table shows, 0 for a hidden table
TotalContribIn(tbl) == IF tbl = <<>> THEN 0 ELSE tbl[1].table.totalContrib

\* the tickers of the items a table was handed
TickersIn(tbl) == IF tbl = <<>> THEN {} ELSE {r.ticker : r \in Range(tbl[1].items)}

\* C30: cash is left out of every table of the TABLES view: no month table
\* and no quarter table holds an item whose ticker contains CASH, and the
\* Total Portfolio contribution of a displayed quarter table is the sum of
\* the Total Portfolio contributions of its three month tables
C30_CashExcludedFromTables ==
    view.mode = "TABLES" =>
        /\ \A m \in DOMAIN view.months :
              \A t \in TickersIn(view.months[m]) : ~IncludesCASH(t)
        /\ \A q \in DOMAIN view.quarters :
              /\ \A t \in TickersIn(view.quarters[q]) : ~IncludesCASH(t)
              /\ view.quarters[q] # <<>> =>
                    TotalContribIn(view.quarters[q])
                      = SumOver(QuarterMonths(q),
                                [m \in 0..11 |-> TotalContribIn(view.months[m])])

-----------------------------------------------------------------------------
(* SpecLoad: App with its data handed to handleDataLoaded by any caller *)

\* the data sets handed to handleDataLoaded
LoadedData == {<<>>, DemoData, <<PortfolioItem("BBB", Today, 2000, Undefined, Undefined)>>}

\* the fileInfo argument
LoadedFileInfo == {Absent, Passed([name |-> FileName, count |-> 1])}

\* the files argument: File objects are numbered
LoadedFiles == {Absent, Passed([weightsFile |-> 1, navFile |-> Null])}

\* a call handleDataLoaded(data, fileInfo, files)
LoadData(data, fileInfo, files) ==
    /\ Len(fileHistory) < MaxHistory
    /\ HandleDataLoaded(data, fileInfo, files)
    /\ UNCHANGED <<uploadVars, outsideUpload>>

NextLoad ==
    \/ \E data \in LoadedData : \E fileInfo \in LoadedFileInfo : \E files \in LoadedFiles :
          LoadData(data, fileInfo, files)
    \/ SidebarClick
    \/ Recalculate
    \/ ResolveRun
    \/ RejectRun

SpecLoad == Init /\ [][NextLoad]_vars

\* C28: a call of handleDataLoaded with an empty data set leaves fileHistory
\* empty, both uploadedFiles entries null, correlationResult null and
\* correlationStatus 'idle', and does not change the current view; a call
\* with a non-empty data set resets correlationResult to null and
\* correlationStatus to 'idle' and, when fileInfo is supplied, appends
\* exactly that one entry to fileHistory
C28_LoadFrame ==
    [][\A data \in LoadedData : \A fileInfo \in LoadedFileInfo : \A files \in LoadedFiles :
          LoadData(data, fileInfo, files) =>
              /\ correlationResult' = NoResult
              /\ correlationStatus' = "idle"
              /\ Len(data) = 0 =>
                    /\ fileHistory' = <<>>
                    /\ uploadedFiles' = NoFiles
                    /\ currentView' = currentView
              /\ (Len(data) > 0 /\ fileInfo # Absent) =>
                    fileHistory' = Append(fileHistory, fileInfo[1])]_vars

\* the data was cleared while Correlation Matrix is shown and an analysis
\* runs: the status is 'idle' again and the view is still CORRELATION
C28_Witness ==
    /\ Len(portfolioData) = 0
    /\ currentView = "CORRELATION"
    /\ correlationStatus = "idle"
    /\ Len(runs) > 0
    /\ fileHistory = <<>>
    /\ uploadedFiles = NoFiles

-----------------------------------------------------------------------------
(* SpecLoadFair: SpecLoad with every call of analyzeCorrelations settling *)

\* the external analysis call resolves or rejects
SettleRun == ResolveRun \/ RejectRun

SpecLoadFair == SpecLoad /\ WF_vars(SettleRun)

\* the mount effect of CorrelationView has started a run
MountStartsRun ==
    /\ currentView # "CORRELATION"
    /\ currentView' = "CORRELATION"
    /\ correlationStatus' # correlationStatus

=============================================================================
